---------------------------- MODULE Spec2Model ----------------------------
(***************************************************************************)
(* Model of the appstream backend orchestration core:                      *)
(*   - BuildHistoryService   (services/build_history_service.py)           *)
(*   - WorkflowExecutor      (services/workflows/workflow_executor.py)     *)
(*   - BuildService          (services/build_service.py)                   *)
(*   - FlutterRunService     (services/flutter_run_service.py)             *)
(* Each service has its own specification over the shared variable tuple;  *)
(* a specification leaves the variables of the other services unchanged.   *)
(***************************************************************************)
EXTENDS Integers, Sequences, FiniteSets, TLC

VARIABLES
    \* ---- BuildHistoryService: the stored build_history.json of one app
    history,        \* list of records, as _load_history returns it
    hist_clock,     \* datetime.now() as a strictly increasing counter
    hist_last,      \* the record returned by the last add_record call
    \* ---- WorkflowExecutor
    wf_entry,       \* the entry point of the last executor call: execute or execute_steps
    wf_pc,          \* position of the execute() call: idle, loop, step, after, done
    wf_steps,       \* the workflow's step list (each step given by its behaviour)
    stop_on_error,  \* the stop_on_error argument of the call
    index,          \* loop variable of execute (0-based)
    step_results,   \* local list step_results of execute
    failed,         \* local flag failed of execute
    _should_stop,   \* WorkflowExecutor._should_stop
    _is_running,    \* WorkflowExecutor._is_running
    _current_run_id, \* WorkflowExecutor._current_run_id (one run is in flight at a time)
    step_events,    \* workflow_step_status events emitted for the current run
    wf_events,      \* workflow_status events emitted for the current run
    wf_return,      \* what the last execute() call returned
    stop_return,    \* what the last stop() call returned
    created,        \* indices of the steps instantiated by the registry, in order
    validated,      \* indices of the steps whose validate() was called, in order
    executed,       \* indices of the steps whose execute() was called, in order
    es_return,      \* what the last execute_steps() call returned (or raised)
    \* ---- BuildService
    build_logs,     \* BuildService.build_logs: build id -> list of log entries
    current_process,   \* BuildService.current_process (a process id)
    current_build_id,  \* BuildService.current_build_id
    _build_start_time, \* BuildService._build_start_time is set
    procs,          \* the subprocesses spawned so far (subprocess.Popen objects)
    stage_log,      \* build id -> the pipeline stages started and ended, in order
    stop_build_return, \* what the last stop_build() call returned
    stop_calls,     \* the stop_build() calls made so far
    stop_build_pc,  \* position of the stop_build() call
    req,            \* the build requests: position and locals of each build() call
    threads,        \* the request threads that serve build requests
    \* ---- FlutterRunService
    process,        \* FlutterRunService.process (a process id)
    device,         \* FlutterRunService.device
    project_id,     \* FlutterRunService.project_id
    logs,           \* FlutterRunService.logs
    is_running,     \* FlutterRunService.is_running
    _current_app_id,   \* FlutterRunService._current_app_id (names the run settings)
    _log_thread,    \* the processes whose output a log thread is streaming
    run_procs,      \* the flutter run processes spawned so far
    start_pc,       \* position of the start() call
    start_args,     \* arguments of the start() call in progress
    start_return,   \* what the last start() call returned (or raised)
    run_stop_pc,    \* position of the stop() call
    run_stop_return, \* what the last stop() call returned
    \* ---- CustomArgsStep.parse_arguments
    arguments,      \* the text given to parse_arguments, a sequence of characters
    parse_return,   \* what parse_arguments returned for it
    \* ---- platform handlers and the toolchain command lines
    handler_call,   \* the arguments of the call under study
    handler_return, \* the function applied to them and what it returned
    \* ---- FlutterRunService.get_devices
    devices_call,   \* the arguments and the environment of the get_devices call
    devices_return, \* what get_devices returned
    \* ---- RunScriptStep.execute
    script_call,    \* the step's configuration and context of one execute call
    script_pc,      \* position of execute: idle, reading, waiting, done
    script_clock,   \* seconds since the script was spawned
    script_proc,    \* the spawned shell: stdout open, exited, returncode, time of exit
    output_lines,   \* lines read from the script's stdout
    wait_start,     \* the time at which process.wait(timeout) was entered
    script_result,  \* the StepResult execute returned
    \* ---- the environment of the services: the socket of the log subscribers and the history store
    socket_ok,      \* socketio.emit succeeds at present
    store_ok,       \* the history file can be written at present
    \* ---- concurrent FlutterRunService.start calls
    starters,       \* the request threads calling start(): position, arguments, what line 198 read, the process spawned
    start_count,    \* the start() calls made by those threads so far
    \* ---- FlutterRunService.hot_reload and hot_restart
    hot_call,       \* the last hot_reload or hot_restart call made, or None
    hot_return,     \* what that call returned (or raised)
    hot_count,      \* the hot_reload and hot_restart calls made so far
    \* ---- the post-run steps of FlutterRunService.stop
    post_calls,     \* the contexts stop() passed to execute_steps for the post-run steps, in order
    \* ---- concurrent BuildHistoryService.add_record calls
    adders,         \* the threads calling add_record: position, the list loaded, the build_data
    adds_done       \* the add_record calls that have returned

histVars == <<history, hist_clock, hist_last>>

wfVars == <<wf_entry, wf_pc, wf_steps, stop_on_error, index, step_results, failed,
            _should_stop, _is_running, _current_run_id,
            step_events, wf_events, wf_return, stop_return,
            created, validated, executed, es_return>>

buildVars == <<build_logs, current_process, current_build_id, _build_start_time,
               procs, stage_log, stop_build_return, stop_calls, stop_build_pc, req, threads>>

runVars == <<process, device, project_id, logs, is_running, _current_app_id,
             _log_thread, run_procs, start_pc, start_args, start_return,
             run_stop_pc, run_stop_return>>

argsVars == <<arguments, parse_return>>

cmdVars == <<handler_call, handler_return>>

devVars == <<devices_call, devices_return>>

scriptVars == <<script_call, script_pc, script_clock, script_proc, output_lines, wait_start, script_result>>

envVars == <<socket_ok, store_ok>>

concVars == <<starters, start_count>>

hotVars == <<hot_call, hot_return, hot_count>>

postVars == <<post_calls>>

addVars == <<adders, adds_done>>

\* what the actions of one service leave unchanged
nonHistVars == <<wfVars, buildVars, runVars, argsVars, cmdVars, devVars, scriptVars, envVars, concVars, hotVars, postVars, addVars>>

nonWfVars == <<histVars, buildVars, runVars, argsVars, cmdVars, devVars, scriptVars, envVars, concVars, hotVars, postVars, addVars>>

nonBuildVars == <<wfVars, runVars, argsVars, cmdVars, devVars, scriptVars, envVars, concVars, hotVars, postVars, addVars>>

nonArgsVars == <<histVars, wfVars, buildVars, runVars, cmdVars, devVars, scriptVars, envVars, concVars, hotVars, postVars, addVars>>

nonCmdVars == <<histVars, wfVars, buildVars, runVars, argsVars, devVars, scriptVars, envVars, concVars, hotVars, postVars, addVars>>

nonRunVars == <<histVars, wfVars, buildVars, argsVars, cmdVars, devVars, scriptVars, envVars, concVars, hotVars, postVars, addVars>>

nonDevVars == <<histVars, wfVars, buildVars, runVars, argsVars, cmdVars, scriptVars, envVars, concVars, hotVars, postVars, addVars>>

nonScriptVars == <<histVars, wfVars, buildVars, runVars, argsVars, cmdVars, devVars, envVars, concVars, hotVars, postVars, addVars>>

nonEnvVars == <<histVars, wfVars, buildVars, runVars, argsVars, cmdVars, devVars, scriptVars, concVars, hotVars, postVars, addVars>>

\* the concurrent start() calls act on the run service's fields as well
nonConcVars == <<histVars, wfVars, buildVars, argsVars, cmdVars, devVars, scriptVars, envVars, hotVars, postVars, addVars>>

\* hot_reload and hot_restart act on the run service's process as well
nonHotVars == <<histVars, wfVars, buildVars, argsVars, cmdVars, devVars, scriptVars, envVars, concVars, postVars, addVars>>

\* stop() acts on the run service's fields as well
nonPostVars == <<histVars, wfVars, buildVars, argsVars, cmdVars, devVars, scriptVars, envVars, concVars, hotVars, addVars>>

\* add_record acts on the stored history as well
nonAddVars == <<wfVars, buildVars, runVars, argsVars, cmdVars, devVars, scriptVars, envVars, concVars, hotVars, postVars>>

vars == <<history, hist_clock, hist_last,
          wf_entry, wf_pc, wf_steps, stop_on_error, index, step_results, failed,
          _should_stop, _is_running, _current_run_id,
          step_events, wf_events, wf_return, stop_return,
          created, validated, executed, es_return,
          build_logs, current_process, current_build_id, _build_start_time,
          procs, stage_log, stop_build_return, stop_calls, stop_build_pc, req, threads,
          process, device, project_id, logs, is_running, _current_app_id,
          _log_thread, run_procs, start_pc, start_args, start_return,
          run_stop_pc, run_stop_return,
          arguments, parse_return,
          handler_call, handler_return,
          devices_call, devices_return,
          script_call, script_pc, script_clock, script_proc, output_lines, wait_start, script_result,
          socket_ok, store_ok,
          starters, start_count,
          hot_call, hot_return, hot_count,
          post_calls,
          adders, adds_done>>

\* Python None, for a string, for a dict or object, and for an identifier
None == "None"

NoResult == [status |-> "None"]

NoId == "None"

\* str(uuid.uuid4()): the id of the run (or build) in flight
RunId == "uuid"

\* None for a build id and for a process
NoBuild == 0

NoProcess == 0

\* the request threads of the server
Requests == {1, 2}

\* ------------------------------------------------------------------------
\* Bounds of the model
\* ------------------------------------------------------------------------
MaxAdds == 53           \* add_record calls explored in SpecHistory
MaxSteps == 3           \* longest step list given to the executor
MaxBuilds == 1          \* builds one request thread starts
MaxStops == 1           \* stop_build() calls
MaxRuns == 1            \* flutter run processes started
MaxLines == 1           \* output lines one flutter run process prints
MaxChars == 5           \* longest text given to parse_arguments
MaxArgSteps == 2        \* longest pre-step list whose arguments are harvested
MaxDevices == 2         \* devices the toolchain lists
MaxClock == 4           \* seconds of script run time observed
MaxOutput == 1          \* lines the script prints
MaxStarts == 2          \* start() calls made by the concurrent request threads
MaxHot == 1             \* hot_reload and hot_restart calls made
MaxConcAdds == 5        \* add_record calls made by the concurrent threads

\* ------------------------------------------------------------------------
\* Generic helpers
\* ------------------------------------------------------------------------
Min(a, b) == IF a <= b THEN a ELSE b

\* Python slice seq[:n]
Take(seq, n) == SubSeq(seq, 1, Min(n, Len(seq)))

\* Python list.insert(0, x)
InsertFront(seq, x) == <<x>> \o seq

\* ------------------------------------------------------------------------
\* BuildHistoryService
\* ------------------------------------------------------------------------
HistoryLimit == 50

\* the record add_record builds from build_data (the fields the model keeps)
MakeRecord(build_data, now) ==
    [build_id  |-> build_data.build_id,
     timestamp |-> now,
     status    |-> build_data.status,
     filename  |-> build_data.filename,
     error_message |-> build_data.error_message]

\* add_record with the slice taken before the insertion
AddRecordSliceFirst(hist, build_data, now) ==
    InsertFront(Take(hist, HistoryLimit), MakeRecord(build_data, now))

\* history.insert(0, record); history = history[:50]
AddRecord(hist, build_data, now) ==
    Take(InsertFront(hist, MakeRecord(build_data, now)), HistoryLimit)

\* the build_data of the n-th call explored in SpecHistory
BuildDataFor(n) ==
    [build_id |-> n,
     status |-> IF n % 3 = 0 THEN "error" ELSE "success",
     filename |-> IF n % 3 = 0 THEN None ELSE "artifact",
     error_message |-> IF n % 3 = 0 THEN "failed" ELSE None]

InitHistory ==
    /\ history = <<>>
    /\ hist_clock = 0
    /\ hist_last = NoResult

add_record ==
    /\ hist_clock < MaxAdds
    /\ hist_clock' = hist_clock + 1
    /\ history' = AddRecord(history, BuildDataFor(hist_clock'), hist_clock')
    /\ hist_last' = MakeRecord(BuildDataFor(hist_clock'), hist_clock')
    /\ UNCHANGED nonHistVars

clear_history ==
    /\ history # <<>>
    /\ history' = <<>>
    /\ UNCHANGED <<hist_clock, hist_last>>
    /\ UNCHANGED nonHistVars

NextHistory ==
    \/ add_record
    \/ clear_history

\* ------------------------------------------------------------------------
\* Workflow steps
\* ------------------------------------------------------------------------
\* A step of a step list is given by how it behaves when the executor
\* processes it:
\*   "ok"      registered type, valid config, execute returns success=True
\*   "fail"    registered type, valid config, execute returns success=False
\*   "raise"   registered type, valid config, execute raises
\*   "invalid" registered type, validate returns (False, error)
\*   "vraise"  registered type, validate itself raises (e.g. a non-string
\*             "source" makes source.strip() raise AttributeError)
\*   "unknown" type that is not in the registry
StepKinds == {"ok", "fail", "raise", "invalid", "vraise", "unknown"}

\* a registry that has a class for every type
create_stepAnyType(step) == "instance"

\* StepRegistry.create_step: an instance, or None for an unknown type
create_step(step) == IF step = "unknown" THEN None ELSE "instance"

\* step_instance.validate(): (True, None), (False, error), or an exception
validate(step) ==
    CASE step = "invalid" -> "invalid"
      [] step = "vraise"  -> "raises"
      [] OTHER            -> "valid"

\* step_instance.execute(context): a StepResult, or an exception
execute_step(step) ==
    CASE step = "fail"  -> "failure"
      [] step = "raise" -> "raises"
      [] OTHER          -> "success"

\* StepResult as kept in the results lists; message stands for the text
StepResult(step_id, success, message) ==
    [step_id |-> step_id, success |-> success, message |-> message]

StepLists == UNION {[1..n -> StepKinds] : n \in 0..MaxSteps}

\* ------------------------------------------------------------------------
\* WorkflowExecutor.execute_steps
\* ------------------------------------------------------------------------
\* State of the loop of execute_steps: the locals results and all_success,
\* the calls made on the registry and on the step instances, and whether an
\* exception left the function.
EsStart ==
    [results |-> <<>>, all_success |-> TRUE, raised |-> FALSE,
     created |-> <<>>, validated |-> <<>>, executed |-> <<>>]

\* the iteration of execute_steps without the try around step.execute
ExecuteStepsBodyNoTry(st, step, i, soe) ==
    IF create_step(step) = None
    THEN [st EXCEPT !.results = Append(@, StepResult(i, FALSE, "Unknown step type")),
                    !.all_success = FALSE] @@ [brk |-> soe]
    ELSE LET st1 == [st EXCEPT !.created = Append(@, i),
                               !.validated = Append(@, i)]
         IN CASE validate(step) = "raises" ->
                   [st1 EXCEPT !.raised = TRUE] @@ [brk |-> TRUE]
              [] validate(step) = "invalid" ->
                   [st1 EXCEPT !.results = Append(@, StepResult(i, FALSE, "Step validation failed")),
                               !.all_success = FALSE] @@ [brk |-> soe]
              [] OTHER ->
                   LET st2 == [st1 EXCEPT !.executed = Append(@, i)]
                   IN CASE execute_step(step) = "success" ->
                             [st2 EXCEPT !.results = Append(@, StepResult(i, TRUE, "ok"))]
                                 @@ [brk |-> FALSE]
                        [] execute_step(step) = "failure" ->
                             [st2 EXCEPT !.results = Append(@, StepResult(i, FALSE, "Step failed")),
                                         !.all_success = FALSE] @@ [brk |-> soe]
                        [] OTHER ->
                             [st2 EXCEPT !.raised = TRUE] @@ [brk |-> TRUE]

\* One iteration of the for loop of execute_steps on step number i (0-based).
\* The field "brk" tells whether the iteration ends in a break.
ExecuteStepsBody(st, step, i, soe) ==
    IF create_step(step) = None
    THEN [st EXCEPT !.results = Append(@, StepResult(i, FALSE, "Unknown step type")),
                    !.all_success = FALSE] @@ [brk |-> soe]
    ELSE LET st1 == [st EXCEPT !.created = Append(@, i),
                               !.validated = Append(@, i)]
         IN CASE validate(step) = "raises" ->
                   [st1 EXCEPT !.raised = TRUE] @@ [brk |-> TRUE]
              [] validate(step) = "invalid" ->
                   [st1 EXCEPT !.results = Append(@, StepResult(i, FALSE, "Step validation failed")),
                               !.all_success = FALSE] @@ [brk |-> soe]
              [] OTHER ->
                   LET st2 == [st1 EXCEPT !.executed = Append(@, i)]
                   IN CASE execute_step(step) = "success" ->
                             [st2 EXCEPT !.results = Append(@, StepResult(i, TRUE, "ok"))]
                                 @@ [brk |-> FALSE]
                        [] execute_step(step) = "failure" ->
                             [st2 EXCEPT !.results = Append(@, StepResult(i, FALSE, "Step failed")),
                                         !.all_success = FALSE] @@ [brk |-> soe]
                        [] OTHER ->
                             [st2 EXCEPT !.results = Append(@, StepResult(i, FALSE, "Step execution error")),
                                         !.all_success = FALSE] @@ [brk |-> soe]

RECURSIVE ExecuteStepsLoopNoContinue(_, _, _, _)
\* the loop with a break after every failed step, whatever stop_on_error is
ExecuteStepsLoopNoContinue(st, steps, i, soe) ==
    IF i >= Len(steps) THEN st
    ELSE LET r == ExecuteStepsBody(st, steps[i + 1], i, soe)
             st1 == [f \in DOMAIN st |-> r[f]]
         IN IF r.brk \/ ~r.all_success THEN st1
            ELSE ExecuteStepsLoopNoContinue(st1, steps, i + 1, soe)

RECURSIVE ExecuteStepsLoop(_, _, _, _)
\* for index, step_config in enumerate(steps): ... from index i on
ExecuteStepsLoop(st, steps, i, soe) ==
    IF i >= Len(steps) THEN st
    ELSE LET r == ExecuteStepsBody(st, steps[i + 1], i, soe)
             st1 == [f \in DOMAIN st |-> r[f]]
         IN IF r.brk THEN st1
            ELSE ExecuteStepsLoop(st1, steps, i + 1, soe)

\* execute_steps that breaks at the first failed step whatever stop_on_error is
ExecuteStepsAlwaysStop(steps, soe) ==
    IF steps = <<>> THEN EsStart
    ELSE ExecuteStepsLoop(EsStart, steps, 0, TRUE)

\* execute_steps(steps, context, log_fn, stop_on_error): the returned
\* (all_success, results), or raised = TRUE when an exception propagates
ExecuteSteps(steps, soe) ==
    IF steps = <<>> THEN EsStart
    ELSE ExecuteStepsLoop(EsStart, steps, 0, soe)

\* ------------------------------------------------------------------------
\* WorkflowExecutor.execute / stop
\* ------------------------------------------------------------------------
StepEvent(i, status) == [step_index |-> i, status |-> status]

\* _build_result(run_id, status, message, start_time, step_results)
_build_result(status, message, results) ==
    [status |-> status, message |-> message, step_results |-> results]

\* the loop body that calls execute whatever validate returned
ExecuteBodyIgnoresValidate(step, i, soe) ==
    IF create_step(step) = None
    THEN [result |-> StepResult(i, FALSE, "Unknown step type"),
          created |-> FALSE, validated |-> FALSE, executed |-> FALSE,
          ends |-> IF soe THEN "break" ELSE "next"]
    ELSE CASE validate(step) = "raises" ->
                [result |-> NoResult,
                 created |-> TRUE, validated |-> TRUE, executed |-> FALSE,
                 ends |-> "raise"]
           [] execute_step(step) = "success" ->
                [result |-> StepResult(i, TRUE, "ok"),
                 created |-> TRUE, validated |-> TRUE, executed |-> TRUE,
                 ends |-> "next"]
           [] execute_step(step) = "failure" ->
                [result |-> StepResult(i, FALSE, "Step failed"),
                 created |-> TRUE, validated |-> TRUE, executed |-> TRUE,
                 ends |-> IF soe THEN "break" ELSE "next"]
           [] OTHER ->
                [result |-> StepResult(i, FALSE, "Step execution error"),
                 created |-> TRUE, validated |-> TRUE, executed |-> TRUE,
                 ends |-> IF soe THEN "break" ELSE "next"]

\* What the body of the for loop of execute does with one step: the
\* StepResult it appends (None when validate raises), the calls it makes and
\* how the iteration ends ("next": falls through or continue, "break",
\* "raise": the exception reaches the except clause of execute).
ExecuteBody(step, i, soe) ==
    IF create_step(step) = None
    THEN [result |-> StepResult(i, FALSE, "Unknown step type"),
          created |-> FALSE, validated |-> FALSE, executed |-> FALSE,
          ends |-> IF soe THEN "break" ELSE "next"]
    ELSE CASE validate(step) = "raises" ->
                [result |-> NoResult,
                 created |-> TRUE, validated |-> TRUE, executed |-> FALSE,
                 ends |-> "raise"]
           [] validate(step) = "invalid" ->
                [result |-> StepResult(i, FALSE, "Step validation failed"),
                 created |-> TRUE, validated |-> TRUE, executed |-> FALSE,
                 ends |-> IF soe THEN "break" ELSE "next"]
           [] OTHER ->
                CASE execute_step(step) = "success" ->
                       [result |-> StepResult(i, TRUE, "ok"),
                        created |-> TRUE, validated |-> TRUE, executed |-> TRUE,
                        ends |-> "next"]
                  [] execute_step(step) = "failure" ->
                       [result |-> StepResult(i, FALSE, "Step failed"),
                        created |-> TRUE, validated |-> TRUE, executed |-> TRUE,
                        ends |-> IF soe THEN "break" ELSE "next"]
                  [] OTHER ->
                       [result |-> StepResult(i, FALSE, "Step execution error"),
                        created |-> TRUE, validated |-> TRUE, executed |-> TRUE,
                        ends |-> IF soe THEN "break" ELSE "next"]

\* the indices the loop after the for loop marks as skipped, when it starts
\* one index too late
SkippedRangeLate(results, steps) ==
    { i \in 0..(Len(steps) - 1) : i >= Len(results) + 1 }

\* range(len(step_results), len(steps))
SkippedRange(results, steps) ==
    { i \in 0..(Len(steps) - 1) : i >= Len(results) }

RECURSIVE SkippedEvents(_, _)
\* the 'skipped' events of the indices from i on, in increasing order
SkippedEvents(i, rng) ==
    IF rng = {} THEN <<>>
    ELSE IF i \in rng
         THEN <<StepEvent(i, "skipped")>> \o SkippedEvents(i + 1, rng \ {i})
         ELSE SkippedEvents(i + 1, rng)

\* if failed: status = "error" else: status = "success"
FinalStatus(flag) ==
    IF flag THEN "error" ELSE "success"

InitWf ==
    /\ wf_entry = None
    /\ wf_pc = "idle"
    /\ wf_steps = <<>>
    /\ stop_on_error = TRUE
    /\ index = 0
    /\ step_results = <<>>
    /\ failed = FALSE
    /\ _should_stop = FALSE
    /\ _is_running = FALSE
    /\ _current_run_id = NoId
    /\ step_events = <<>>
    /\ wf_events = <<>>
    /\ wf_return = NoResult
    /\ stop_return = NoResult
    /\ created = <<>>
    /\ validated = <<>>
    /\ executed = <<>>
    /\ es_return = NoResult

\* execute(): lines 156-209, up to the first loop iteration.  found = FALSE
\* stands for a workflow, project or app that the services do not return.
ExecuteCall(steps, soe, found) ==
    /\ wf_pc = "idle"
    /\ wf_entry' = "execute"
    /\ wf_steps' = steps
    /\ stop_on_error' = soe
    /\ _should_stop' = FALSE
    /\ index' = 0
    /\ step_results' = <<>>
    /\ failed' = FALSE
    /\ step_events' = <<>>
    /\ created' = <<>>
    /\ validated' = <<>>
    /\ executed' = <<>>
    /\ IF ~found
       THEN /\ wf_events' = <<"error">>
            /\ wf_return' = _build_result("error", "Workflow execution error", <<>>)
            /\ wf_pc' = "done"
            /\ _is_running' = FALSE
            /\ _current_run_id' = NoId
       ELSE IF steps = <<>>
       THEN /\ wf_events' = <<"running">>
            /\ wf_return' = _build_result("success", "Workflow has no steps", <<>>)
            /\ wf_pc' = "done"
            /\ _is_running' = FALSE
            /\ _current_run_id' = NoId
       ELSE /\ wf_events' = <<"running">>
            /\ wf_return' = NoResult
            /\ wf_pc' = "loop"
            /\ _is_running' = TRUE
            /\ _current_run_id' = RunId
    /\ UNCHANGED <<stop_return, es_return>>
    /\ UNCHANGED nonWfVars

\* the stop check that never sees the flag
StopRequestedNever == FALSE

\* line 212: "if self._should_stop"
StopRequested == _should_stop

\* top of the for loop, lines 211-223: the stop check and the 'running' event
ExecuteLoopTop ==
    /\ wf_pc = "loop"
    /\ IF StopRequested
       THEN /\ wf_events' = Append(wf_events, "stopped")
            /\ wf_return' = _build_result("stopped", "Stopped by user", step_results)
            /\ wf_pc' = "done"
            /\ _is_running' = FALSE
            /\ _current_run_id' = NoId
            /\ UNCHANGED step_events
       ELSE /\ step_events' = Append(step_events, StepEvent(index, "running"))
            /\ wf_pc' = "step"
            /\ UNCHANGED <<wf_events, wf_return, _is_running, _current_run_id>>
    /\ UNCHANGED <<wf_entry, wf_steps, stop_on_error, index, step_results, failed,
                   _should_stop, stop_return,
                   created, validated, executed, es_return>>
    /\ UNCHANGED nonWfVars

\* rest of the loop body, lines 225-282
ExecuteStep ==
    /\ wf_pc = "step"
    /\ LET r == ExecuteBody(wf_steps[index + 1], index, stop_on_error)
       IN /\ created' = IF r.created THEN Append(created, index) ELSE created
          /\ validated' = IF r.validated THEN Append(validated, index) ELSE validated
          /\ executed' = IF r.executed THEN Append(executed, index) ELSE executed
          /\ IF r.ends = "raise"
             THEN \* except Exception as e: lines 304-308, then finally
                  /\ wf_events' = Append(wf_events, "error")
                  /\ wf_return' = _build_result("error", "Workflow execution error", <<>>)
                  /\ wf_pc' = "done"
                  /\ _is_running' = FALSE
                  /\ _current_run_id' = NoId
                  /\ UNCHANGED <<step_results, step_events, failed, index>>
             ELSE /\ step_results' = Append(step_results, r.result)
                  /\ step_events' = Append(step_events,
                        StepEvent(index, IF r.result.success THEN "success" ELSE "error"))
                  /\ failed' = (failed \/ r.ends = "break")
                  /\ IF r.ends = "break" \/ index + 1 >= Len(wf_steps)
                     THEN wf_pc' = "after" /\ UNCHANGED index
                     ELSE wf_pc' = "loop" /\ index' = index + 1
                  /\ UNCHANGED <<wf_events, wf_return, _is_running, _current_run_id>>
    /\ UNCHANGED <<wf_entry, wf_steps, stop_on_error, _should_stop,
                   stop_return, es_return>>
    /\ UNCHANGED nonWfVars

\* after the loop, lines 284-302, and the finally clause
ExecuteAfter ==
    /\ wf_pc = "after"
    /\ step_events' =
          IF failed \/ _should_stop
          THEN step_events \o SkippedEvents(0, SkippedRange(step_results, wf_steps))
          ELSE step_events
    /\ LET status == FinalStatus(failed)
       IN /\ wf_events' = Append(wf_events, status)
          /\ wf_return' = _build_result(status,
                IF status = "error" THEN "Workflow failed"
                ELSE "Workflow completed successfully", step_results)
    /\ wf_pc' = "done"
    /\ _is_running' = FALSE
    /\ _current_run_id' = NoId
    /\ UNCHANGED <<wf_entry, wf_steps, stop_on_error, index, step_results, failed,
                   _should_stop, stop_return,
                   created, validated, executed, es_return>>
    /\ UNCHANGED nonWfVars

\* stop(), called from another request while execute may be running
Stop ==
    /\ IF _is_running /\ _current_run_id # NoId
       THEN /\ _should_stop' = TRUE
            /\ stop_return' = [status |-> "stopping", run_id |-> _current_run_id]
       ELSE /\ stop_return' = [status |-> "no_active_workflow"]
            /\ UNCHANGED _should_stop
    /\ UNCHANGED <<wf_entry, wf_pc, wf_steps, stop_on_error, index, step_results, failed,
                   _is_running, _current_run_id,
                   step_events, wf_events, wf_return,
                   created, validated, executed, es_return>>
    /\ UNCHANGED nonWfVars

\* a call of execute_steps (by a build or a run session) on the idle executor
ExecuteStepsCall(steps, soe) ==
    /\ wf_pc = "idle"
    /\ wf_entry' = "execute_steps"
    /\ LET r == ExecuteSteps(steps, soe)
       IN /\ es_return' = [status |-> IF r.raised THEN "raised" ELSE "returned",
                           raised |-> r.raised, success |-> r.all_success,
                           results |-> r.results]
          /\ created' = r.created
          /\ validated' = r.validated
          /\ executed' = r.executed
    /\ wf_steps' = steps
    /\ stop_on_error' = soe
    /\ wf_pc' = "done"
    /\ wf_return' = NoResult
    /\ step_results' = <<>>
    /\ step_events' = <<>>
    /\ wf_events' = <<>>
    /\ failed' = FALSE
    /\ index' = 0
    /\ UNCHANGED <<_should_stop, _is_running, _current_run_id, stop_return>>
    /\ UNCHANGED nonWfVars

\* the caller takes the result of the finished call; the executor keeps its
\* fields (_should_stop stays as the run left it) and is ready for a new call
Return ==
    /\ wf_pc = "done"
    /\ wf_pc' = "idle"
    /\ wf_entry' = None
    /\ wf_steps' = <<>>
    /\ stop_on_error' = TRUE
    /\ index' = 0
    /\ step_results' = <<>>
    /\ failed' = FALSE
    /\ step_events' = <<>>
    /\ wf_events' = <<>>
    /\ wf_return' = NoResult
    /\ stop_return' = NoResult
    /\ created' = <<>>
    /\ validated' = <<>>
    /\ executed' = <<>>
    /\ es_return' = NoResult
    /\ UNCHANGED <<_should_stop, _is_running, _current_run_id>>
    /\ UNCHANGED nonWfVars

NextWf ==
    \/ /\ wf_pc = "idle"
       /\ \E steps \in StepLists, soe \in BOOLEAN, found \in BOOLEAN :
              ExecuteCall(steps, soe, found)
    \/ ExecuteLoopTop
    \/ ExecuteStep
    \/ ExecuteAfter
    \/ Stop
    \/ /\ wf_pc = "idle"
       /\ \E steps \in StepLists, soe \in BOOLEAN : ExecuteStepsCall(steps, soe)
    \/ Return


\* ------------------------------------------------------------------------
\* BuildService
\* ------------------------------------------------------------------------
\* The app and project stores the build consults (app_service.get,
\* project_service.get): the records the model explores.
MissingApp == [found |-> FALSE]

AppStore(app_id) ==
    CASE app_id = "app1" ->
           [found |-> TRUE, project_id |-> "p1", platforms |-> {"android"},
            preSteps |-> <<>>, postSteps |-> <<>>]
      [] app_id = "app2" ->
           [found |-> TRUE, project_id |-> "p1", platforms |-> {"android", "fuchsia"},
            preSteps |-> <<"run_script">>, postSteps |-> <<"copy_files">>]
      [] app_id = "noproj" ->
           [found |-> TRUE, project_id |-> None, platforms |-> {"android"},
            preSteps |-> <<>>, postSteps |-> <<>>]
      [] app_id = "orphan" ->
           [found |-> TRUE, project_id |-> "p9", platforms |-> {"android"},
            preSteps |-> <<>>, postSteps |-> <<>>]
      [] OTHER -> MissingApp

AppIds == {"app1", "app2", "noproj", "orphan", "ghost"}

RequestPlatforms == {"android", "ios", "fuchsia"}

\* project_service.get(project_id) returns a project
ProjectExists(pid) == pid = "p1"

\* the keys of platforms._HANDLERS
HandlerPlatforms == {"android", "ios", "web", "macos", "windows", "linux"}

\* How the steps of a configured list behave when they run: a step of a
\* registered type succeeds, fails or has a validate that raises.
RunKinds == {"ok", "fail", "vraise"}

StepRuns(config_steps) == [1..Len(config_steps) -> RunKinds]

\* every way the step list of some app can run
ConfiguredRuns ==
    UNION {StepRuns(AppStore(a).preSteps) \cup StepRuns(AppStore(a).postSteps) :
              a \in {"app1", "app2"}}

\* the same checks without the test of the platform list
PreconditionErrorNoPlatformCheck(app_id, platform) ==
    LET app_config == AppStore(app_id)
    IN IF ~app_config.found THEN "App not found"
       ELSE IF app_config.project_id = None
            THEN "App is not associated with a project"
       ELSE IF ~ProjectExists(app_config.project_id)
            THEN "Project not found"
       ELSE None

\* the checks of build() before a build id is allocated, lines 86-101: the
\* message of the ValueError raised, or None
PreconditionError(app_id, platform) ==
    LET app_config == AppStore(app_id)
    IN IF ~app_config.found THEN "App not found"
       ELSE IF app_config.project_id = None
            THEN "App is not associated with a project"
       ELSE IF ~ProjectExists(app_config.project_id)
            THEN "Project not found"
       ELSE IF platform \notin app_config.platforms
            THEN "Platform is not supported by this app"
       ELSE None

LogEntry(message, level) == [message |-> message, level |-> level]

\* the entries execute_steps writes through log_fn, one per recorded result
StepLogs(results) ==
    [k \in 1..Len(results) |->
        LogEntry(results[k].message, IF results[k].success THEN "success" ELSE "error")]

IdleRequest ==
    [pc |-> "idle", app_id |-> None, platform |-> None, build_id |-> NoBuild,
     process |-> NoProcess, artifact |-> None, error |-> None, ret |-> NoResult,
     builds |-> 0]

InitBuildShared ==
    /\ build_logs = <<>>
    /\ current_process = NoProcess
    /\ current_build_id = NoBuild
    /\ _build_start_time = FALSE
    /\ procs = <<>>
    /\ stage_log = <<>>
    /\ stop_build_return = NoResult
    /\ stop_calls = 0
    /\ stop_build_pc = "idle"
    /\ req = [r \in Requests |-> IdleRequest]

\* one request thread
InitBuild == InitBuildShared /\ threads = {1}

\* concurrent requests (the server runs every request in its own thread)
InitBuildConc == InitBuildShared /\ threads = Requests

\* ---- helpers on the shared state
\* _log, lines 277-296: the entry is appended to build_logs[build_id] and
\* then published; "emitted" remembers whether the publish went through
Logged(all_logs, build_id, entries) ==
    [all_logs EXCEPT ![build_id] = @ \o
        [k \in 1..Len(entries) |->
            [message |-> entries[k].message, level |-> entries[k].level,
             emitted |-> socket_ok]]]

Staged(log, build_id, events) ==
    [log EXCEPT ![build_id] = @ \o events]

StageEvent(stage, ev) == [stage |-> stage, ev |-> ev]

\* _log with the publish outside of a try
EmitRaisedUncaught(emit_ok) == ~emit_ok

\* _log, lines 288-296: "try: socketio.emit(...) except Exception: print";
\* no failure of the publish leaves _log
EmitRaised(emit_ok) == FALSE

\* the stage at which request r fails, and the jump to the except clause
Raise(r, message) ==
    [req EXCEPT ![r].pc = "except", ![r].error = message]

\* the next position of request r after a step and its log calls
Goto(r, pc) ==
    IF EmitRaised(socket_ok) THEN Raise(r, "publish failed")
    ELSE [req EXCEPT ![r].pc = pc]


\* build(): lines 86-106.  A failed check raises before anything is touched;
\* otherwise the build id is allocated and the build slot taken.
BuildCall(r, app_id, platform) ==
    /\ r \in threads
    /\ req[r].pc = "idle"
    /\ LET error == PreconditionError(app_id, platform)
       IN IF error # None
          THEN /\ req' = [req EXCEPT ![r].pc = "done",
                                     ![r].error = error,
                                     ![r].ret = [status |-> "raised", error |-> error]]
               /\ UNCHANGED <<build_logs, current_build_id, _build_start_time, stage_log>>
          ELSE /\ req[r].builds < MaxBuilds
               /\ LET build_id == Len(build_logs) + 1
                  IN /\ build_logs' = Append(build_logs, <<>>)
                     /\ stage_log' = Append(stage_log, <<>>)
                     /\ current_build_id' = build_id
                     /\ _build_start_time' = TRUE
                     /\ req' = [req EXCEPT ![r].pc = "pre",
                                           ![r].app_id = app_id,
                                           ![r].platform = platform,
                                           ![r].build_id = build_id,
                                           ![r].builds = @ + 1]
    /\ UNCHANGED <<current_process, procs, stop_build_return, stop_calls, stop_build_pc, threads>>
    /\ UNCHANGED histVars
    /\ UNCHANGED nonBuildVars

\* line 149, "if not success", taken as always passing
StepsSucceededAlways(res) == TRUE

\* line 149: the pre-build steps passed when execute_steps reports success
StepsSucceeded(res) == res.all_success

\* lines 109-156: the platform handler, the settings and the pre-build steps
BuildPreSteps(r, runs) ==
    /\ r \in threads
    /\ req[r].pc = "pre"
    /\ LET bid == req[r].build_id
           pre_steps == AppStore(req[r].app_id).preSteps
           res == ExecuteSteps(runs, TRUE)
       IN /\ runs \in StepRuns(pre_steps)
          /\ IF req[r].platform \notin HandlerPlatforms
             THEN \* get_handler raises ValueError
                  /\ req' = Raise(r, "Unsupported platform")
                  /\ UNCHANGED <<build_logs, stage_log>>
             ELSE IF pre_steps = <<>>
             THEN /\ req' = Goto(r, "setup")
                  /\ UNCHANGED <<build_logs, stage_log>>
             ELSE IF res.raised
             THEN \* a validate() that raises leaves execute_steps by the exception
                  /\ req' = Raise(r, "step validation raised")
                  /\ build_logs' = Logged(build_logs, bid,
                        <<LogEntry("Running pre-build step(s)", "info")>>
                        \o StepLogs(res.results))
                  /\ stage_log' = Staged(stage_log, bid,
                        <<StageEvent("pre_steps", "start"), StageEvent("pre_steps", "fail")>>)
             ELSE /\ req' = IF StepsSucceeded(res)
                            THEN Goto(r, "setup")
                            ELSE Raise(r, "Pre-build workflow steps failed")
                  /\ build_logs' = Logged(build_logs, bid,
                        <<LogEntry("Running pre-build step(s)", "info")>>
                        \o StepLogs(res.results)
                        \o (IF StepsSucceeded(res)
                            THEN <<LogEntry("Pre-build steps completed", "success")>>
                            ELSE <<>>))
                  /\ stage_log' = Staged(stage_log, bid,
                        <<StageEvent("pre_steps", "start"),
                          StageEvent("pre_steps", IF res.all_success THEN "ok" ELSE "fail")>>)
    /\ UNCHANGED <<current_process, current_build_id, _build_start_time, procs,
                   stop_build_return, stop_calls, stop_build_pc, threads>>
    /\ UNCHANGED histVars
    /\ UNCHANGED nonBuildVars

\* lines 158-161: handler.setup(app_id, app_config), which may raise
BuildSetup(r, ok) ==
    /\ r \in threads
    /\ req[r].pc = "setup"
    /\ LET bid == req[r].build_id
       IN /\ build_logs' = Logged(build_logs, bid,
                <<LogEntry("Setting up configuration", "info")>>)
          /\ stage_log' = Staged(stage_log, bid,
                <<StageEvent("setup", "start"),
                  StageEvent("setup", IF ok THEN "ok" ELSE "fail")>>)
          /\ req' = IF ok THEN Goto(r, "clean") ELSE Raise(r, "setup failed")
    /\ UNCHANGED <<current_process, current_build_id, _build_start_time, procs,
                   stop_build_return, stop_calls, stop_build_pc, threads>>
    /\ UNCHANGED histVars
    /\ UNCHANGED nonBuildVars

\* the three toolchain commands of _run_flutter_build, in order
ToolchainCommands == <<"clean", "pub_get", "build">>

CommandIndex(pc) ==
    CASE pc \in {"clean", "clean_wait"}     -> 1
      [] pc \in {"pub_get", "pub_get_wait"} -> 2
      [] OTHER                              -> 3

\* where build() goes after the command at position k has succeeded, if the
\* dependency fetch were skipped
AfterCommandSkipFetch(k) ==
    IF k = 1 THEN "build" ELSE "find"

\* where build() goes after the command at position k has succeeded
AfterCommand(k) ==
    IF k < Len(ToolchainCommands) THEN ToolchainCommands[k + 1] ELSE "find"

\* _run_flutter_command up to Popen, lines 357-367 (for clean preceded by
\* os.chdir, line 317, for build by get_build_command, line 325): spawned =
\* FALSE stands for one of these or Popen raising
SpawnCommand(r, spawned) ==
    /\ r \in threads
    /\ req[r].pc \in {"clean", "pub_get", "build"}
    /\ LET bid == req[r].build_id
           cmd == req[r].pc
           pid == Len(procs) + 1
       IN IF spawned
          THEN /\ procs' = Append(procs, [cmd |-> cmd, build_id |-> bid,
                                           state |-> "running", rc |-> 0,
                                           signals |-> <<>>])
               /\ current_process' = pid
               /\ req' = [req EXCEPT ![r].pc = cmd \o "_wait", ![r].process = pid]
               /\ build_logs' = Logged(build_logs, bid,
                     <<LogEntry("Running " \o cmd, "info")>>)
               /\ stage_log' = Staged(stage_log, bid, <<StageEvent(cmd, "start")>>)
          ELSE /\ req' = Raise(r, "spawn failed")
               /\ build_logs' = Logged(build_logs, bid,
                     <<LogEntry("Build error", "error")>>)
               /\ stage_log' = Staged(stage_log, bid,
                     <<StageEvent(cmd, "start"), StageEvent(cmd, "fail")>>)
               /\ UNCHANGED <<procs, current_process>>
    /\ UNCHANGED <<current_build_id, _build_start_time, stop_build_return, stop_calls, stop_build_pc, threads>>
    /\ UNCHANGED histVars
    /\ UNCHANGED nonBuildVars

\* the exit codes a process can end with: 0 or 1 by itself; a process that
\* was sent a signal ends with the signal (-15 for terminate, -9 for kill)
\* unless it had already ended
ExitCodes(proc) ==
    IF proc.signals = <<>> THEN {0, 1}
    ELSE IF proc.signals = <<"terminate">> THEN {0, 0 - 15}
    ELSE {0, 0 - 15, 0 - 9}

\* the test of the exit code left out
CommandFailedNever(rc) == FALSE

\* line 375: "if process.returncode != 0"
CommandFailed(rc) == rc # 0

\* _run_flutter_command from the output loop on, lines 369-378, and the
\* except clauses of _run_flutter_build, lines 341-346
WaitCommand(r, rc) ==
    /\ r \in threads
    /\ req[r].pc \in {"clean_wait", "pub_get_wait", "build_wait"}
    /\ LET bid == req[r].build_id
           pid == req[r].process
           cmd == procs[pid].cmd
       IN /\ rc \in ExitCodes(procs[pid])
          /\ procs' = [procs EXCEPT ![pid].state = "exited", ![pid].rc = rc]
          /\ IF CommandFailed(rc)
             THEN /\ req' = Raise(r, "CalledProcessError")
                  /\ build_logs' = Logged(build_logs, bid,
                        <<LogEntry("Flutter build failed with exit code", "error")>>)
                  /\ stage_log' = Staged(stage_log, bid, <<StageEvent(cmd, "fail")>>)
             ELSE /\ req' = Goto(r, AfterCommand(CommandIndex(req[r].pc)))
                  /\ build_logs' = Logged(build_logs, bid,
                        <<LogEntry(cmd \o " completed", "success")>>)
                  /\ stage_log' = Staged(stage_log, bid, <<StageEvent(cmd, "ok")>>)
    /\ UNCHANGED <<current_process, current_build_id, _build_start_time,
                   stop_build_return, stop_calls, stop_build_pc, threads>>
    /\ UNCHANGED histVars
    /\ UNCHANGED nonBuildVars

\* find_build_output without the test that the path exists
OutputMissingNever(present) == FALSE

\* android.py 110-111 (and the same test of every handler): "if not
\* path.exists(): raise FileNotFoundError"
OutputMissing(present) == ~present

\* handler.find_build_output, line 339; FileNotFoundError when absent.
\* present tells whether the compile left the artifact at the expected
\* path; the request remembers it in "artifact".
BuildFindOutput(r, present) ==
    /\ r \in threads
    /\ req[r].pc = "find"
    /\ LET bid == req[r].build_id
       IN IF ~OutputMissing(present)
          THEN /\ req' = [Goto(r, "move") EXCEPT ![r].artifact =
                                IF present THEN "present" ELSE "absent"]
               /\ stage_log' = Staged(stage_log, bid,
                     <<StageEvent("find_output", "start"), StageEvent("find_output", "ok")>>)
               /\ UNCHANGED build_logs
          ELSE /\ req' = [Raise(r, "Build output not found") EXCEPT ![r].artifact = "absent"]
               /\ build_logs' = Logged(build_logs, bid,
                     <<LogEntry("Build error", "error")>>)
               /\ stage_log' = Staged(stage_log, bid,
                     <<StageEvent("find_output", "start"), StageEvent("find_output", "fail")>>)
    /\ UNCHANGED <<current_process, current_build_id, _build_start_time, procs,
                   stop_build_return, stop_calls, stop_build_pc, threads>>
    /\ UNCHANGED histVars
    /\ UNCHANGED nonBuildVars

\* lines 171-183: shutil.move(output_path, final_output_path)
BuildMoveOutput(r, moved) ==
    /\ r \in threads
    /\ req[r].pc = "move"
    /\ LET bid == req[r].build_id
       IN /\ stage_log' = Staged(stage_log, bid,
                <<StageEvent("relocate", "start"),
                  StageEvent("relocate", IF moved THEN "ok" ELSE "fail")>>)
          /\ req' = IF moved THEN Goto(r, "post") ELSE Raise(r, "move failed")
    /\ UNCHANGED <<build_logs, current_process, current_build_id, _build_start_time,
                   procs, stop_build_return, stop_calls, stop_build_pc, threads>>
    /\ UNCHANGED histVars
    /\ UNCHANGED nonBuildVars

\* lines 185-201: the post-build steps; a failed step is only a warning
BuildPostSteps(r, runs) ==
    /\ r \in threads
    /\ req[r].pc = "post"
    /\ LET bid == req[r].build_id
           post_steps == AppStore(req[r].app_id).postSteps
           res == ExecuteSteps(runs, TRUE)
       IN /\ runs \in StepRuns(post_steps)
          /\ IF post_steps = <<>>
             THEN /\ req' = Goto(r, "finish")
                  /\ UNCHANGED <<build_logs, stage_log>>
             ELSE IF res.raised
             THEN /\ req' = Raise(r, "step validation raised")
                  /\ build_logs' = Logged(build_logs, bid,
                        <<LogEntry("Running post-build step(s)", "info")>>
                        \o StepLogs(res.results))
                  /\ stage_log' = Staged(stage_log, bid,
                        <<StageEvent("post_steps", "start"), StageEvent("post_steps", "fail")>>)
             ELSE /\ req' = Goto(r, "finish")
                  /\ build_logs' = Logged(build_logs, bid,
                        <<LogEntry("Running post-build step(s)", "info")>>
                        \o StepLogs(res.results)
                        \o <<IF res.all_success
                             THEN LogEntry("Post-build steps completed", "success")
                             ELSE LogEntry("Warning: Some post-build steps failed", "warning")>>)
                  /\ stage_log' = Staged(stage_log, bid,
                        <<StageEvent("post_steps", "start"),
                          StageEvent("post_steps", IF res.all_success THEN "ok" ELSE "fail")>>)
    /\ UNCHANGED <<current_process, current_build_id, _build_start_time, procs,
                   stop_build_return, stop_calls, stop_build_pc, threads>>
    /\ UNCHANGED histVars
    /\ UNCHANGED nonBuildVars

\* the name of the relocated artifact, lines 174-177
OutputFilename == "artifact"

\* the record build() hands to _log_to_history: lines 207-215 on success,
\* lines 233-241 on failure
HistoryData(build_id, status, error_message) ==
    [build_id |-> build_id,
     status |-> status,
     filename |-> IF status = "success" THEN OutputFilename ELSE None,
     error_message |-> error_message]

\* _log_to_history called for successful builds only
LogToHistoryOnSuccessOnly(build_id, status, error_message) ==
    IF status = "success"
    THEN /\ hist_clock' = hist_clock + 1
         /\ history' = AddRecord(history,
                HistoryData(build_id, status, error_message), hist_clock')
         /\ hist_last' = MakeRecord(HistoryData(build_id, status, error_message), hist_clock')
    ELSE UNCHANGED histVars

\* _log_to_history, lines 386-392: history_service.add_record(project_id,
\* app_id, record) inside "try ... except Exception: print"
LogToHistory(build_id, status, error_message) ==
    IF store_ok
    THEN /\ hist_clock' = hist_clock + 1
         /\ history' = AddRecord(history,
                HistoryData(build_id, status, error_message), hist_clock')
         /\ hist_last' = MakeRecord(HistoryData(build_id, status, error_message), hist_clock')
    ELSE UNCHANGED histVars

\* a reset that forgets the process handle
ResetBuildStateKeepsProcess ==
    /\ current_build_id' = NoBuild
    /\ _build_start_time' = FALSE
    /\ UNCHANGED current_process

\* _reset_build_state, lines 394-398
ResetBuildState ==
    /\ current_build_id' = NoBuild
    /\ current_process' = NoProcess
    /\ _build_start_time' = FALSE

\* lines 203-226: the success exit of build()
BuildFinish(r) ==
    /\ r \in threads
    /\ req[r].pc = "finish"
    /\ LET bid == req[r].build_id
       IN /\ build_logs' = Logged(build_logs, bid,
                <<LogEntry("Build completed successfully!", "success")>>)
          /\ LogToHistory(bid, "success", None)
          /\ ResetBuildState
          /\ req' = [req EXCEPT ![r].pc = "done",
                                ![r].ret = [status |-> "success", build_id |-> bid,
                                            filename |-> OutputFilename]]
    /\ UNCHANGED <<procs, stage_log, stop_build_return, stop_calls, stop_build_pc, threads>>
    /\ UNCHANGED nonBuildVars

\* lines 228-244: the except clause of build()
BuildExcept(r) ==
    /\ r \in threads
    /\ req[r].pc = "except"
    /\ LET bid == req[r].build_id
       IN /\ build_logs' = Logged(build_logs, bid,
                <<LogEntry("Build failed", "error")>>)
          /\ LogToHistory(bid, "error", req[r].error)
          /\ ResetBuildState
          /\ req' = [req EXCEPT ![r].pc = "done",
                                ![r].ret = [status |-> "raised", error |-> req[r].error]]
    /\ UNCHANGED <<procs, stage_log, stop_build_return, stop_calls, stop_build_pc, threads>>
    /\ UNCHANGED nonBuildVars

\* the request is answered (routes/build.py build_app); the thread is free
BuildReturn(r) ==
    /\ r \in threads
    /\ req[r].pc = "done"
    /\ req' = [req EXCEPT ![r] = [IdleRequest EXCEPT !.builds = req[r].builds]]
    /\ UNCHANGED <<build_logs, current_process, current_build_id, _build_start_time,
                   procs, stage_log, stop_build_return, stop_calls, stop_build_pc, threads>>
    /\ UNCHANGED histVars
    /\ UNCHANGED nonBuildVars

\* stop_build() runs in the thread of its own request, beside the build.
\* It reads self.current_process and self.current_build_id anew at every
\* use; each read or write of a slot is one step.
SignalSent(p, sig) ==
    IF procs[p].state = "running"
    THEN [procs EXCEPT ![p].signals = Append(@, sig)]
    ELSE procs

\* an exception leaves stop_build (AttributeError on None, KeyError in _log)
StopBuildRaised(message) ==
    /\ stop_build_pc' = "done"
    /\ stop_build_return' = [status |-> "raised", error |-> message]

\* line 248: "if self.current_process"
StopBuildActive == current_process # NoProcess

\* line 248, and line 261 when there is no process
StopBuildCall ==
    /\ stop_build_pc = "idle"
    /\ stop_calls < MaxStops
    /\ stop_calls' = stop_calls + 1
    /\ IF StopBuildActive
       THEN /\ stop_build_pc' = "terminate"
            /\ stop_build_return' = NoResult
       ELSE /\ stop_build_pc' = "done"
            /\ stop_build_return' = [status |-> "no_active_build", error |-> None]
    /\ UNCHANGED <<build_logs, current_process, current_build_id, _build_start_time,
                   procs, stage_log, req, threads>>
    /\ UNCHANGED histVars
    /\ UNCHANGED nonBuildVars

\* line 250: self.current_process.terminate()
StopBuildTerminate ==
    /\ stop_build_pc = "terminate"
    /\ IF current_process = NoProcess
       THEN /\ StopBuildRaised("AttributeError")
            /\ UNCHANGED procs
       ELSE /\ procs' = SignalSent(current_process, "terminate")
            /\ stop_build_pc' = "wait"
            /\ UNCHANGED stop_build_return
    /\ UNCHANGED <<build_logs, current_process, current_build_id, _build_start_time,
                   stage_log, stop_calls, req, threads>>
    /\ UNCHANGED histVars
    /\ UNCHANGED nonBuildVars

\* line 251: self.current_process.wait(timeout=5).  The wait ends when the
\* process has ended; timed_out tells that it was still alive after the
\* grace timeout (line 252).
StopBuildWait(timed_out) ==
    /\ stop_build_pc = "wait"
    /\ IF current_process = NoProcess
       THEN /\ ~timed_out
            /\ StopBuildRaised("AttributeError")
       ELSE /\ timed_out => procs[current_process].state = "running"
            /\ stop_build_pc' = IF timed_out THEN "kill" ELSE "log"
            /\ UNCHANGED stop_build_return
    /\ UNCHANGED <<build_logs, current_process, current_build_id, _build_start_time,
                   procs, stage_log, stop_calls, req, threads>>
    /\ UNCHANGED histVars
    /\ UNCHANGED nonBuildVars

\* line 253: self.current_process.kill()
StopBuildKill ==
    /\ stop_build_pc = "kill"
    /\ IF current_process = NoProcess
       THEN /\ StopBuildRaised("AttributeError")
            /\ UNCHANGED procs
       ELSE /\ procs' = SignalSent(current_process, "kill")
            /\ stop_build_pc' = "log"
            /\ UNCHANGED stop_build_return
    /\ UNCHANGED <<build_logs, current_process, current_build_id, _build_start_time,
                   stage_log, stop_calls, req, threads>>
    /\ UNCHANGED histVars
    /\ UNCHANGED nonBuildVars

\* line 255: "if self.current_build_id"
StopBuildLogTest ==
    /\ stop_build_pc = "log"
    /\ stop_build_pc' = IF current_build_id # NoBuild THEN "log_write" ELSE "clear"
    /\ UNCHANGED <<build_logs, current_process, current_build_id, _build_start_time,
                   procs, stage_log, stop_build_return, stop_calls, req, threads>>
    /\ UNCHANGED histVars
    /\ UNCHANGED nonBuildVars

\* line 256: self._log(self.current_build_id, "Build stopped by user", ...);
\* build_logs has no entry for None
StopBuildLog ==
    /\ stop_build_pc = "log_write"
    /\ IF current_build_id = NoBuild
       THEN /\ StopBuildRaised("KeyError")
            /\ UNCHANGED build_logs
       ELSE /\ build_logs' = Logged(build_logs, current_build_id,
                                    <<LogEntry("Build stopped by user", "warning")>>)
            /\ stop_build_pc' = "clear"
            /\ UNCHANGED stop_build_return
    /\ UNCHANGED <<current_process, current_build_id, _build_start_time,
                   procs, stage_log, stop_calls, req, threads>>
    /\ UNCHANGED histVars
    /\ UNCHANGED nonBuildVars

\* line 258: self.current_process = None
StopBuildClearProcess ==
    /\ stop_build_pc = "clear"
    /\ current_process' = NoProcess
    /\ stop_build_pc' = "clear_id"
    /\ UNCHANGED <<build_logs, current_build_id, _build_start_time, procs, stage_log,
                   stop_build_return, stop_calls, req, threads>>
    /\ UNCHANGED histVars
    /\ UNCHANGED nonBuildVars

\* lines 259-260: self.current_build_id = None; return {"status": "stopped"}
StopBuildClearId ==
    /\ stop_build_pc = "clear_id"
    /\ current_build_id' = NoBuild
    /\ stop_build_pc' = "done"
    /\ stop_build_return' = [status |-> "stopped", error |-> None]
    /\ UNCHANGED <<build_logs, current_process, _build_start_time, procs, stage_log,
                   stop_calls, req, threads>>
    /\ UNCHANGED histVars
    /\ UNCHANGED nonBuildVars

\* the stop request is answered
StopBuildReturn ==
    /\ stop_build_pc = "done"
    /\ stop_build_pc' = "idle"
    /\ stop_build_return' = NoResult
    /\ UNCHANGED <<build_logs, current_process, current_build_id, _build_start_time,
                   procs, stage_log, stop_calls, req, threads>>
    /\ UNCHANGED histVars
    /\ UNCHANGED nonBuildVars

NextBuild ==
    \/ \E r \in Requests, app_id \in AppIds, platform \in RequestPlatforms :
          BuildCall(r, app_id, platform)
    \/ \E r \in Requests, runs \in ConfiguredRuns : BuildPreSteps(r, runs)
    \/ \E r \in Requests, ok \in BOOLEAN : BuildSetup(r, ok)
    \/ \E r \in Requests, spawned \in BOOLEAN : SpawnCommand(r, spawned)
    \/ \E r \in Requests, rc \in {0, 1, 0 - 15, 0 - 9} : WaitCommand(r, rc)
    \/ \E r \in Requests, present \in BOOLEAN : BuildFindOutput(r, present)
    \/ \E r \in Requests, moved \in BOOLEAN : BuildMoveOutput(r, moved)
    \/ \E r \in Requests, runs \in ConfiguredRuns : BuildPostSteps(r, runs)
    \/ \E r \in Requests : BuildFinish(r)
    \/ \E r \in Requests : BuildExcept(r)
    \/ \E r \in Requests : BuildReturn(r)
    \/ StopBuildCall
    \/ StopBuildTerminate
    \/ \E timed_out \in BOOLEAN : StopBuildWait(timed_out)
    \/ StopBuildKill
    \/ StopBuildLogTest
    \/ StopBuildLog
    \/ StopBuildClearProcess
    \/ StopBuildClearId
    \/ StopBuildReturn

\* concurrent build requests, without stop requests
NextBuildConc ==
    \/ \E r \in Requests, app_id \in AppIds, platform \in RequestPlatforms :
          BuildCall(r, app_id, platform)
    \/ \E r \in Requests, runs \in ConfiguredRuns : BuildPreSteps(r, runs)
    \/ \E r \in Requests, ok \in BOOLEAN : BuildSetup(r, ok)
    \/ \E r \in Requests, spawned \in BOOLEAN : SpawnCommand(r, spawned)
    \/ \E r \in Requests, rc \in {0, 1, 0 - 15, 0 - 9} : WaitCommand(r, rc)
    \/ \E r \in Requests, present \in BOOLEAN : BuildFindOutput(r, present)
    \/ \E r \in Requests, moved \in BOOLEAN : BuildMoveOutput(r, moved)
    \/ \E r \in Requests, runs \in ConfiguredRuns : BuildPostSteps(r, runs)
    \/ \E r \in Requests : BuildFinish(r)
    \/ \E r \in Requests : BuildExcept(r)
    \/ \E r \in Requests : BuildReturn(r)


\* ------------------------------------------------------------------------
\* FlutterRunService
\* ------------------------------------------------------------------------
\* the run settings of an app (_get_run_settings): its pre-run and post-run
\* steps; no app id, or an app without settings, gives none
RunSettings(app_id) ==
    IF app_id = "app2"
    THEN [preSteps |-> <<"run_script">>, postSteps |-> <<"copy_files">>]
    ELSE [preSteps |-> <<>>, postSteps |-> <<>>]

RunApps == {None, "app2"}

RunProjects == {None, "p1", "p9"}

DeviceIds == {"emulator-5554"}

NoArgs == [device_id |-> None, project_id |-> None, app_id |-> None]

\* __init__, lines 43-53
InitRun ==
    /\ process = NoProcess
    /\ device = None
    /\ project_id = None
    /\ logs = <<>>
    /\ is_running = FALSE
    /\ _current_app_id = None
    /\ _log_thread = {}
    /\ run_procs = <<>>
    /\ start_pc = "idle"
    /\ start_args = NoArgs
    /\ start_return = NoResult
    /\ run_stop_pc = "idle"
    /\ run_stop_return = NoResult

\* the guard of start() with the test of is_running left out
AlreadyRunningNever == FALSE

\* line 198: "if self.is_running"
AlreadyRunning == is_running

\* the message of the ValueError start() raises before it touches the
\* session, lines 198-204, or None
StartError(pid) ==
    IF AlreadyRunning THEN "Flutter is already running"
    ELSE IF pid = None THEN "Project ID is required"
    ELSE IF ~ProjectExists(pid) THEN "Project not found"
    ELSE None

\* an except clause that re-raises without giving the session slot back
StartFailedKeepsSlot(message) ==
    /\ start_pc' = "done"
    /\ start_return' = [status |-> "raised", error |-> message]
    /\ UNCHANGED <<is_running, device, project_id>>

\* the except clause of start(), lines 305-309
StartFailed(message) ==
    /\ is_running' = FALSE
    /\ device' = None
    /\ project_id' = None
    /\ start_pc' = "done"
    /\ start_return' = [status |-> "raised", error |-> message]

\* start(), lines 198-209
StartCall(device_id, pid, app_id) ==
    /\ start_pc = "idle"
    /\ IF StartError(pid) # None
       THEN /\ start_pc' = "done"
            /\ start_return' = [status |-> "raised", error |-> StartError(pid)]
            /\ UNCHANGED <<device, project_id, logs, is_running, start_args>>
       ELSE /\ Len(run_procs) < MaxRuns
            /\ device' = device_id
            /\ project_id' = pid
            /\ logs' = <<>>
            /\ is_running' = TRUE
            /\ start_pc' = "pre"
            /\ start_args' = [device_id |-> device_id, project_id |-> pid, app_id |-> app_id]
            /\ UNCHANGED start_return
    /\ UNCHANGED <<process, _current_app_id, _log_thread, run_procs,
                   run_stop_pc, run_stop_return>>
    /\ UNCHANGED nonRunVars

\* start(), lines 211-275: the run settings and the pre-run steps
StartPreSteps(runs) ==
    /\ start_pc = "pre"
    /\ LET pre_steps == RunSettings(start_args.app_id).preSteps
           res == ExecuteSteps(runs, TRUE)
       IN /\ runs \in StepRuns(pre_steps)
          /\ IF pre_steps = <<>>
             THEN /\ start_pc' = "spawn"
                  /\ UNCHANGED <<logs, is_running, device, project_id, start_return>>
             ELSE IF res.raised \/ ~res.all_success
             THEN /\ logs' = logs \o <<LogEntry("Running pre-run step(s)", "info")>>
                               \o StepLogs(res.results)
                  /\ StartFailed(IF res.raised THEN "step validation raised"
                                 ELSE "Pre-run workflow steps failed")
             ELSE /\ logs' = logs \o <<LogEntry("Running pre-run step(s)", "info")>>
                               \o StepLogs(res.results)
                               \o <<LogEntry("Pre-run steps completed", "success")>>
                  /\ start_pc' = "spawn"
                  /\ UNCHANGED <<is_running, device, project_id, start_return>>
    /\ UNCHANGED <<process, _current_app_id, _log_thread, run_procs, start_args,
                   run_stop_pc, run_stop_return>>
    /\ UNCHANGED nonRunVars

\* start(), lines 277-304: Popen and the log thread; spawned = FALSE stands
\* for Popen raising
StartSpawn(spawned) ==
    /\ start_pc = "spawn"
    /\ logs' = Append(logs, LogEntry("Starting Flutter run", "info"))
    /\ IF spawned
       THEN /\ run_procs' = Append(run_procs,
                 [state |-> "running", stdin |-> <<>>, killed |-> FALSE, printed |-> 0,
                  app_id |-> start_args.app_id])
            /\ process' = Len(run_procs) + 1
            /\ _current_app_id' = start_args.app_id
            /\ _log_thread' = _log_thread \cup {Len(run_procs) + 1}
            /\ start_pc' = "done"
            /\ start_return' = [status |-> "running", error |-> None]
            /\ UNCHANGED <<is_running, device, project_id>>
       ELSE /\ StartFailed("spawn failed")
            /\ UNCHANGED <<run_procs, process, _current_app_id, _log_thread>>
    /\ UNCHANGED <<start_args, run_stop_pc, run_stop_return>>
    /\ UNCHANGED nonRunVars

\* the start() request is answered
StartReturn ==
    /\ start_pc = "done"
    /\ start_pc' = "idle"
    /\ start_args' = NoArgs
    /\ UNCHANGED <<process, device, project_id, logs, is_running, _current_app_id,
                   _log_thread, run_procs, start_return, run_stop_pc, run_stop_return>>
    /\ UNCHANGED nonRunVars

\* _stream_logs, lines 379-393: one line of the process's output
StreamLine(p) ==
    /\ p \in _log_thread
    /\ run_procs[p].state = "running"
    /\ run_procs[p].printed < MaxLines
    /\ run_procs' = [run_procs EXCEPT ![p].printed = @ + 1]
    /\ logs' = Append(logs, LogEntry("flutter output", "terminal"))
    /\ UNCHANGED <<process, device, project_id, is_running, _current_app_id,
                   _log_thread, start_pc, start_args, start_return,
                   run_stop_pc, run_stop_return>>
    /\ UNCHANGED nonRunVars

\* the flutter process ends by itself
ProcessExit(p) ==
    /\ p \in 1..Len(run_procs)
    /\ run_procs[p].state = "running"
    /\ run_procs' = [run_procs EXCEPT ![p].state = "exited"]
    /\ UNCHANGED <<process, device, project_id, logs, is_running, _current_app_id,
                   _log_thread, start_pc, start_args, start_return,
                   run_stop_pc, run_stop_return>>
    /\ UNCHANGED nonRunVars

\* _stream_logs, lines 395-397: the output has ended
StreamEnd(p) ==
    /\ p \in _log_thread
    /\ run_procs[p].state = "exited"
    /\ _log_thread' = _log_thread \ {p}
    /\ is_running' = FALSE
    /\ device' = None
    /\ project_id' = None
    /\ UNCHANGED <<process, logs, _current_app_id, run_procs, start_pc, start_args,
                   start_return, run_stop_pc, run_stop_return>>
    /\ UNCHANGED nonRunVars

\* the guard of stop() testing the process handle only
NoActiveSessionProcessOnly == process = NoProcess

\* line 422: "if not self.is_running or not self.process"
NoActiveSession == ~is_running \/ process = NoProcess

\* stop(), lines 422-434: the early return, or 'q' written to the process
\* and the wait; killed tells that the wait timed out.  A process that has
\* already ended receives nothing: the write fails or is lost, and kill()
\* finds no process.
RunStop(killed) ==
    /\ run_stop_pc = "idle"
    /\ IF NoActiveSession
       THEN /\ run_stop_pc' = "done"
            /\ run_stop_return' = [status |-> "stopped"]
            /\ UNCHANGED run_procs
       ELSE /\ run_procs' =
                 IF run_procs[process].state = "running"
                 THEN [run_procs EXCEPT ![process].stdin = Append(@, "q"),
                                        ![process].killed = killed,
                                        ![process].state = "exited"]
                 ELSE run_procs
            /\ run_stop_pc' = "post"
            /\ UNCHANGED run_stop_return
    /\ UNCHANGED <<process, device, project_id, logs, is_running, _current_app_id,
                   _log_thread, start_pc, start_args, start_return>>
    /\ UNCHANGED nonRunVars

\* _get_project_root, lines 76-84, as a string; None for no project
ProjectRoot(pid) == IF pid = None THEN None ELSE "/projects/" \o pid

\* stop(), lines 446-458: the context of the post-run steps, read from the
\* fields of the service when the steps are about to run; session names
\* the process the service tracks at that moment
PostContext ==
    [project_id |-> project_id,
     project_root |-> ProjectRoot(project_id),
     app_id |-> _current_app_id,
     device_id |-> device,
     session |-> process]

InitPostIdle == post_calls = <<>>

\* stop(), lines 436-481: the post-run steps and the clean-up
RunStopPost(runs) ==
    /\ run_stop_pc = "post"
    /\ LET post_steps == RunSettings(_current_app_id).postSteps
           res == ExecuteSteps(runs, TRUE)
       IN /\ runs \in StepRuns(post_steps)
          /\ post_calls' = IF post_steps = <<>> THEN post_calls
                           ELSE Append(post_calls, PostContext)
          /\ logs' =
               IF post_steps = <<>> THEN logs
               ELSE logs \o <<LogEntry("Running post-run step(s)", "info")>>
                         \o StepLogs(res.results)
                         \o <<IF res.raised
                              THEN LogEntry("Error running post-run steps", "error")
                              ELSE IF res.all_success
                              THEN LogEntry("Post-run steps completed", "success")
                              ELSE LogEntry("Warning: Some post-run steps failed", "warning")>>
    /\ is_running' = FALSE
    /\ device' = None
    /\ project_id' = None
    /\ _current_app_id' = None
    /\ run_stop_pc' = "done"
    /\ run_stop_return' = [status |-> "stopped"]
    /\ UNCHANGED <<process, _log_thread, run_procs, start_pc, start_args, start_return>>
    /\ UNCHANGED nonPostVars

\* the stop() request is answered
RunStopReturn ==
    /\ run_stop_pc = "done"
    /\ run_stop_pc' = "idle"
    /\ UNCHANGED <<process, device, project_id, logs, is_running, _current_app_id,
                   _log_thread, run_procs, start_pc, start_args, start_return,
                   run_stop_return>>
    /\ UNCHANGED nonRunVars

HotKinds == {"reload", "restart"}

InitHotIdle ==
    /\ hot_call = None
    /\ hot_return = NoResult
    /\ hot_count = 0

\* a hot restart that sends the key of the hot reload
HotCommandLower(kind) == "r"

\* lines 490 and 502: 'r' asks flutter for a hot reload, 'R' for a hot restart
HotCommand(kind) == IF kind = "reload" THEN "r" ELSE "R"

\* hot_reload and hot_restart, lines 483-505: without a session the call
\* raises; else the key is written to the process's stdin.  The write to a
\* process that has ended fails, and the except clause re-raises.
HotCall(kind) ==
    /\ hot_count < MaxHot
    /\ hot_count' = hot_count + 1
    /\ hot_call' = kind
    /\ IF NoActiveSession
       THEN /\ hot_return' = [status |-> "raised", error |-> "Flutter is not running"]
            /\ UNCHANGED run_procs
       ELSE IF run_procs[process].state = "running"
       THEN /\ run_procs' = [run_procs EXCEPT ![process].stdin = Append(@, HotCommand(kind))]
            /\ hot_return' = [status |-> IF kind = "reload" THEN "reloading" ELSE "restarting",
                              error |-> None]
       ELSE /\ hot_return' = [status |-> "raised",
                              error |-> IF kind = "reload" THEN "Hot reload failed"
                                        ELSE "Hot restart failed"]
            /\ UNCHANGED run_procs
    /\ UNCHANGED <<process, device, project_id, logs, is_running, _current_app_id,
                   _log_thread, start_pc, start_args, start_return,
                   run_stop_pc, run_stop_return>>
    /\ UNCHANGED nonHotVars

RunProcessIds == 1..MaxRuns

NextRun ==
    \/ \E device_id \in DeviceIds, pid \in RunProjects, app_id \in RunApps :
          StartCall(device_id, pid, app_id)
    \/ \E runs \in ConfiguredRuns : StartPreSteps(runs)
    \/ \E spawned \in BOOLEAN : StartSpawn(spawned)
    \/ StartReturn
    \/ \E p \in RunProcessIds : StreamLine(p)
    \/ \E p \in RunProcessIds : ProcessExit(p)
    \/ \E p \in RunProcessIds : StreamEnd(p)
    \/ \E killed \in BOOLEAN : RunStop(killed)
    \/ \E runs \in ConfiguredRuns : RunStopPost(runs)
    \/ RunStopReturn

\* the run service with hot_reload and hot_restart requests
NextRunHot ==
    \/ NextRun
    \/ \E kind \in HotKinds : HotCall(kind)

\* ------------------------------------------------------------------------
\* CustomArgsStep.parse_arguments
\* ------------------------------------------------------------------------
\* the characters of the texts: a letter, the two separators, the two
\* quotes and the escape character
Letter == "a"

Space == " "

Newline == "\n"

DoubleQuote == "\""

SingleQuote == "'"

Backslash == "\\"

Alphabet == {Letter, Space, Newline, DoubleQuote, SingleQuote, Backslash}

Texts == UNION {[1..n -> Alphabet] : n \in 0..MaxChars}

\* what str.strip, str.split and shlex take as whitespace
Whitespace == {Space, Newline}

\* shlex.quotes
Quotes == {DoubleQuote, SingleQuote}

\* line 81: "not arguments or not arguments.strip()"
IsBlank(text) == \A k \in 1..Len(text) : text[k] \in Whitespace

\* line 85: arguments.replace('\n', ' ').replace('\r', ' ')
Normalized(text) ==
    [k \in 1..Len(text) |-> IF text[k] = Newline THEN Space ELSE text[k]]

\* shlex.shlex(s, posix=True) with whitespace_split and no commenters: the
\* state of the lexer ("ws" and "word" stand for its states ' ' and 'a'),
\* the token being read and the tokens read so far
ShlexStart ==
    [state |-> "ws", escapedstate |-> "ws", token |-> <<>>, quoted |-> FALSE,
     tokens |-> <<>>, error |-> FALSE]

\* read_token returns the token; the next call starts a new one
ShlexEmit(st) ==
    [st EXCEPT !.tokens = Append(@, st.token), !.token = <<>>,
               !.quoted = FALSE, !.escapedstate = "ws"]

\* shlex.read_token: one character c read in state st.state
ShlexChar(st, c) ==
    CASE st.state = "ws" ->
           IF c \in Whitespace
           THEN IF st.token # <<>> \/ st.quoted THEN ShlexEmit(st) ELSE st
           ELSE IF c = Backslash
           THEN [st EXCEPT !.escapedstate = "word", !.state = c]
           ELSE IF c \in Quotes
           THEN [st EXCEPT !.state = c]
           ELSE [st EXCEPT !.token = <<c>>, !.state = "word"]
      [] st.state \in Quotes ->
           LET q == [st EXCEPT !.quoted = TRUE]
           IN IF c = st.state
              THEN [q EXCEPT !.state = "word"]
              ELSE IF c = Backslash /\ st.state = DoubleQuote
              THEN [q EXCEPT !.escapedstate = st.state, !.state = c]
              ELSE [q EXCEPT !.token = Append(@, c)]
      [] st.state = Backslash ->
           LET kept == IF /\ st.escapedstate \in Quotes
                          /\ c # st.state
                          /\ c # st.escapedstate
                       THEN Append(st.token, st.state)
                       ELSE st.token
           IN [st EXCEPT !.token = Append(kept, c), !.state = st.escapedstate]
      [] OTHER ->
           IF c \in Whitespace
           THEN LET s1 == [st EXCEPT !.state = "ws"]
                IN IF st.token # <<>> \/ st.quoted THEN ShlexEmit(s1) ELSE s1
           ELSE IF c \in Quotes
           THEN [st EXCEPT !.state = c]
           ELSE IF c = Backslash
           THEN [st EXCEPT !.escapedstate = "word", !.state = c]
           ELSE [st EXCEPT !.token = Append(@, c)]

\* shlex.read_token at the end of the input: ValueError inside a quotation
\* or after an escape character, else the last token if there is one
ShlexEof(st) ==
    IF st.state \in Quotes \/ st.state = Backslash
    THEN [st EXCEPT !.error = TRUE]
    ELSE IF st.token # <<>> \/ st.quoted THEN ShlexEmit(st) ELSE st

RECURSIVE ShlexRead(_, _, _)
ShlexRead(text, i, st) ==
    IF i > Len(text) THEN ShlexEof(st)
    ELSE ShlexRead(text, i + 1, ShlexChar(st, text[i]))

\* shlex.split(s): the tokens, or error = TRUE for ValueError
shlex_split(text) == ShlexRead(text, 1, ShlexStart)

RECURSIVE StrSplit(_, _, _, _)
StrSplit(text, i, token, out) ==
    IF i > Len(text)
    THEN IF token # <<>> THEN Append(out, token) ELSE out
    ELSE IF text[i] \in Whitespace
    THEN StrSplit(text, i + 1, <<>>, IF token # <<>> THEN Append(out, token) ELSE out)
    ELSE StrSplit(text, i + 1, Append(token, text[i]), out)

\* line 92: [arg.strip() for arg in normalized.split() if arg.strip()]
str_split(text) == StrSplit(text, 1, <<>>, <<>>)

\* parse_arguments that only splits at whitespace, blind to quotes
parse_argumentsSplitOnly(text) ==
    IF text = <<>> \/ IsBlank(text) THEN <<>>
    ELSE str_split(Normalized(text))

\* CustomArgsStep.parse_arguments, lines 67-92
parse_arguments(text) ==
    IF text = <<>> \/ IsBlank(text) THEN <<>>
    ELSE LET normalized == Normalized(text)
             r == shlex_split(normalized)
         IN IF r.error THEN str_split(normalized) ELSE r.tokens

\* the value of parse_return before the call
NotReturned == [returned |-> FALSE, tokens |-> <<>>]

InitArgsIdle ==
    /\ arguments = <<>>
    /\ parse_return = NotReturned

InitArgs ==
    /\ arguments \in Texts
    /\ parse_return = NotReturned

\* a call parse_arguments(arguments)
ParseArguments ==
    /\ ~parse_return.returned
    /\ parse_return' = [returned |-> TRUE, tokens |-> parse_arguments(arguments)]
    /\ UNCHANGED arguments
    /\ UNCHANGED nonArgsVars

NextArgs == ParseArguments

\* ------------------------------------------------------------------------
\* Platform handlers (services/platforms) and the command lines
\* ------------------------------------------------------------------------
BuildTypes == {"release", "debug", "profile"}

OutputTypes == {"apk", "appbundle", "ipa"}

\* the name of the flutter build sub-command of the five handlers that
\* have one sub-command
SubCommand(platform) == platform

\* "--release" if build_type == "release" else "--debug"
ReleaseOrDebug(build_type) == IF build_type = "release" THEN "--release" ELSE "--debug"

\* ios.py 45-50: mode_flags.get(build_type, "--release")
IosModeFlag(build_type) ==
    CASE build_type = "release" -> "--release"
      [] build_type = "debug"   -> "--debug"
      [] build_type = "profile" -> "--profile"
      [] OTHER                  -> "--release"

\* handler.get_build_command(build_type, output_type)
get_build_command(platform, build_type, output_type) ==
    CASE platform = "android" ->
           IF output_type = "appbundle"
           THEN <<"flutter", "build", "appbundle", ReleaseOrDebug(build_type)>>
           ELSE <<"flutter", "build", "apk", ReleaseOrDebug(build_type)>>
      [] platform = "ios" ->
           <<"flutter", "build", "ios", IosModeFlag(build_type), "--no-codesign">>
      [] OTHER ->
           <<"flutter", "build", SubCommand(platform), ReleaseOrDebug(build_type)>>

\* a path below the project root: its directories, the parts of the file
\* name that the f-string joins, and the suffix of the file name
Path(dirs, name, suffix) == [raised |-> None, dirs |-> dirs, name |-> name, suffix |-> suffix]

FileNotFound == [raised |-> "FileNotFoundError", dirs |-> <<>>, name |-> <<>>, suffix |-> ""]

\* macos.py 49, windows.py 49, linux.py 49: the build configuration directory
BuildConfig(platform, build_type) ==
    IF platform = "linux"
    THEN (IF build_type = "release" THEN "release" ELSE "debug")
    ELSE (IF build_type = "release" THEN "Release" ELSE "Debug")

\* what find_build_output looks for: the artifact (Android) or the raw
\* build output that is then zipped
ExpectedOutput(platform, build_type, output_type) ==
    CASE platform = "android" ->
           IF output_type = "appbundle"
           THEN Path(<<"build", "app", "outputs", "bundle", build_type>>,
                     <<"app-", build_type>>, ".aab")
           ELSE Path(<<"build", "app", "outputs", "flutter-apk">>,
                     <<"app-", build_type>>, ".apk")
      [] platform = "ios" ->
           Path(<<"build", "ios", "iphoneos">>, <<"Runner">>, ".app")
      [] platform = "web" ->
           Path(<<"build">>, <<"web">>, "")
      [] platform = "macos" ->
           Path(<<"build", "macos", "Build", "Products">>,
                <<BuildConfig(platform, build_type)>>, "")
      [] platform = "windows" ->
           Path(<<"build", "windows", "x64", "runner">>,
                <<BuildConfig(platform, build_type)>>, "")
      [] OTHER ->
           Path(<<"build", "linux", "x64", BuildConfig(platform, build_type)>>,
                <<"bundle">>, "")

\* base.py 112-130: _zip_directory and _zip_app_bundle(.., output_name)
ZipPath(platform, build_type) == Path(<<"build">>, <<platform, "_", build_type>>, ".zip")

\* handler.find_build_output(build_type, output_type); exists tells whether
\* the expected output is on disk
find_build_output(platform, build_type, output_type, exists) ==
    IF ~exists THEN FileNotFound
    ELSE IF platform = "android" THEN ExpectedOutput(platform, build_type, output_type)
    ELSE ZipPath(platform, build_type)

\* an Android handler that names every artifact an APK
get_output_extensionApk(platform, output_type) ==
    IF platform = "android" THEN ".apk" ELSE ".zip"

\* handler.get_output_extension(output_type)
get_output_extension(platform, output_type) ==
    IF platform = "android"
    THEN CASE output_type = "apk"       -> ".apk"
           [] output_type = "appbundle" -> ".aab"
           [] OTHER                     -> ".apk"
    ELSE ".zip"

\* the step configurations of the pre-step lists: custom_args steps with
\* one token, with two tokens on two lines and with no text, and a
\* run_script step
ArgSteps ==
    {[type |-> "custom_args", arguments |-> <<Letter>>],
     [type |-> "custom_args", arguments |-> <<Letter, Letter, Newline, Letter>>],
     [type |-> "custom_args", arguments |-> <<>>],
     [type |-> "run_script", arguments |-> <<Letter, Letter, Letter>>]}

ArgStepLists == UNION {[1..n -> ArgSteps] : n \in 0..MaxArgSteps}

\* CustomArgsStep.extract_arguments_from_config(config), lines 94-106
extract_arguments_from_config(config) == parse_arguments(config.arguments)

RECURSIVE ExtractFirstOnly(_, _)
\* the harvest that stops after the first custom_args step
ExtractFirstOnly(steps, i) ==
    IF i > Len(steps) THEN <<>>
    ELSE IF steps[i].type = "custom_args"
    THEN extract_arguments_from_config(steps[i])
    ELSE ExtractFirstOnly(steps, i + 1)

RECURSIVE ExtractFrom(_, _)
\* the loop of _extract_custom_args from step i on
ExtractFrom(steps, i) ==
    IF i > Len(steps) THEN <<>>
    ELSE IF steps[i].type = "custom_args"
    THEN extract_arguments_from_config(steps[i]) \o ExtractFrom(steps, i + 1)
    ELSE ExtractFrom(steps, i + 1)

\* _extract_custom_args harvesting one step only
_extract_custom_argsFirstOnly(steps) == ExtractFirstOnly(steps, 1)

\* BuildService._extract_custom_args(steps, results), lines 400-422, and
\* FlutterRunService._extract_custom_args, lines 352-374
_extract_custom_args(steps) == ExtractFrom(steps, 1)

\* the command lines _run_flutter_build runs, lines 316-334
FlutterBuildCommands(platform, build_type, output_type, custom_args) ==
    <<(<<"flutter", "clean">>),
      (<<"flutter", "pub", "get">>),
      get_build_command(platform, build_type, output_type) \o custom_args>>

\* flutter_run_service.py 213-219: mode_flags.get(run_mode, '--debug')
RunModeFlag(run_mode) ==
    CASE run_mode = "debug"   -> "--debug"
      [] run_mode = "profile" -> "--profile"
      [] run_mode = "release" -> "--release"
      [] OTHER                -> "--debug"

\* the command line start() spawns, lines 219 and 277-279
FlutterRunCommand(device_id, run_mode, custom_args) ==
    <<"flutter", "run", "-d", device_id, RunModeFlag(run_mode)>> \o custom_args

\* start(..., run_mode='debug'): 'debug', 'profile' or 'release'
RunModes == {"debug", "profile", "release"}

NoCall ==
    [platform |-> None, build_type |-> None, output_type |-> None,
     pre_steps |-> <<>>, device_id |-> None, run_mode |-> None]

NotCalled == [fn |-> None]

InitCmdIdle ==
    /\ handler_call = NoCall
    /\ handler_return = NotCalled

\* the calls studied: every handler with every build type and output type,
\* after every list of pre-steps; a device and every run mode
InitCmd ==
    /\ handler_call \in [platform : HandlerPlatforms, build_type : BuildTypes,
                         output_type : OutputTypes, pre_steps : ArgStepLists,
                         device_id : {"d1"}, run_mode : RunModes]
    /\ handler_return = NotCalled

GetBuildCommand ==
    /\ handler_return = NotCalled
    /\ handler_return' =
          [fn |-> "get_build_command",
           value |-> get_build_command(handler_call.platform, handler_call.build_type,
                                       handler_call.output_type)]
    /\ UNCHANGED handler_call
    /\ UNCHANGED nonCmdVars

FindBuildOutput(exists) ==
    /\ handler_return = NotCalled
    /\ handler_return' =
          [fn |-> "find_build_output",
           value |-> find_build_output(handler_call.platform, handler_call.build_type,
                                       handler_call.output_type, exists)]
    /\ UNCHANGED handler_call
    /\ UNCHANGED nonCmdVars

GetOutputExtension ==
    /\ handler_return = NotCalled
    /\ handler_return' =
          [fn |-> "get_output_extension",
           value |-> get_output_extension(handler_call.platform,
                                          handler_call.output_type)]
    /\ UNCHANGED handler_call
    /\ UNCHANGED nonCmdVars

\* build(): the pre-steps have succeeded (line 152), then lines 167-169
RunFlutterBuild ==
    /\ handler_return = NotCalled
    /\ handler_return' =
          [fn |-> "_run_flutter_build",
           value |-> FlutterBuildCommands(handler_call.platform, handler_call.build_type,
                                          handler_call.output_type,
                                          _extract_custom_args(handler_call.pre_steps))]
    /\ UNCHANGED handler_call
    /\ UNCHANGED nonCmdVars

\* start(): the pre-run steps have succeeded (line 271), then lines 277-279
StartCommand ==
    /\ handler_return = NotCalled
    /\ handler_return' =
          [fn |-> "start",
           value |-> FlutterRunCommand(handler_call.device_id, handler_call.run_mode,
                                       _extract_custom_args(handler_call.pre_steps))]
    /\ UNCHANGED handler_call
    /\ UNCHANGED nonCmdVars

NextCmd ==
    \/ GetBuildCommand
    \/ \E exists \in BOOLEAN : FindBuildOutput(exists)
    \/ GetOutputExtension
    \/ RunFlutterBuild
    \/ StartCommand

\* ------------------------------------------------------------------------
\* FlutterRunService.get_devices
\* ------------------------------------------------------------------------

\* DEVICE_PLATFORM_MAP.get(target_platform, None), lines 13-37 and 114-116
_map_device_platform(target_platform) ==
    CASE target_platform \in {"android-arm", "android-arm64", "android-x64",
                              "android-x86", "android"}          -> "android"
      [] target_platform = "ios"                                   -> "ios"
      [] target_platform \in {"darwin", "darwin-arm64", "darwin-x64"} -> "macos"
      [] target_platform \in {"linux-x64", "linux-arm64", "linux"} -> "linux"
      [] target_platform \in {"windows-x64", "windows"}            -> "windows"
      [] target_platform \in {"web-javascript", "chrome", "web"}   -> "web"
      [] OTHER                                                     -> None

\* _get_project_platforms, lines 86-112: the platform directories found in
\* the project root, none when the project is not found
_get_project_platforms(pid, dirs) ==
    IF ~ProjectExists(pid) THEN {}
    ELSE {p \in HandlerPlatforms : p \in dirs}

\* the entry of device_list made from entry k of the toolchain's list
DeviceEntry(k, target_platform) ==
    [id |-> k, platform |-> target_platform,
     platform_type |-> _map_device_platform(target_platform)]

RECURSIVE Filtered(_, _)
\* [d for d in device_list if d.get("platform_type") in supported_platforms]
Filtered(device_list, supported_platforms) ==
    IF device_list = <<>> THEN <<>>
    ELSE LET rest == Filtered(Tail(device_list), supported_platforms)
         IN IF Head(device_list).platform_type \in supported_platforms
            THEN <<Head(device_list)>> \o rest
            ELSE rest

\* get_devices(project_id), lines 118-171: returncode and targets are the
\* exit code and the target platforms of the listed devices of
\* "flutter devices --machine", dirs the directories of the project root
get_devices(pid, returncode, targets, dirs) ==
    IF returncode # 0 THEN <<>>
    ELSE LET device_list == [k \in 1..Len(targets) |-> DeviceEntry(k, targets[k])]
             supported_platforms == _get_project_platforms(pid, dirs)
         IN IF pid # None /\ supported_platforms # {}
            THEN Filtered(device_list, supported_platforms)
            ELSE device_list

TargetPlatforms == {"android-arm64", "chrome", "fuchsia-x64"}

TargetLists == UNION {[1..n -> TargetPlatforms] : n \in 0..MaxDevices}

ProjectDirs == SUBSET {"android", "web", "lib"}

NoDevicesCall == [project_id |-> None, returncode |-> 0, targets |-> <<>>, dirs |-> {}]

NoDevices == [returned |-> FALSE, devices |-> <<>>]

InitDevicesIdle ==
    /\ devices_call = NoDevicesCall
    /\ devices_return = NoDevices

InitDevices ==
    /\ devices_call \in [project_id : RunProjects, returncode : {0, 1},
                         targets : TargetLists, dirs : ProjectDirs]
    /\ devices_return = NoDevices

GetDevices ==
    /\ ~devices_return.returned
    /\ devices_return' =
          [returned |-> TRUE,
           devices |-> get_devices(devices_call.project_id, devices_call.returncode,
                                   devices_call.targets, devices_call.dirs)]
    /\ UNCHANGED devices_call
    /\ UNCHANGED nonDevVars

NextDevices == GetDevices

\* ------------------------------------------------------------------------
\* RunScriptStep.execute (workflows/steps/run_script_step.py)
\* ------------------------------------------------------------------------

ScriptTimeouts == {1, 2}

NoScriptCall == [project_root |-> FALSE, cwd_exists |-> FALSE, timeout |-> 1, fail_on_error |-> TRUE]

NoScriptProcess == [spawned |-> FALSE, stdout_open |-> FALSE, exited |-> FALSE,
                    returncode |-> 0, killed |-> FALSE, exited_at |-> 0]

NoScriptResult == [returned |-> FALSE, success |-> FALSE, message |-> None, error |-> None]

ScriptResult(success, message, error) ==
    [returned |-> TRUE, success |-> success, message |-> message, error |-> error]

InitScriptIdle ==
    /\ script_call = NoScriptCall
    /\ script_pc = "idle"
    /\ script_clock = 0
    /\ script_proc = NoScriptProcess
    /\ output_lines = <<>>
    /\ wait_start = 0
    /\ script_result = NoScriptResult

InitScript ==
    /\ script_call \in [project_root : BOOLEAN, cwd_exists : BOOLEAN,
                        timeout : ScriptTimeouts, fail_on_error : BOOLEAN]
    /\ script_pc = "idle"
    /\ script_clock = 0
    /\ script_proc = NoScriptProcess
    /\ output_lines = <<>>
    /\ wait_start = 0
    /\ script_result = NoScriptResult

\* lines 90-125: the early returns, then subprocess.Popen; an exception of
\* Popen is caught at line 175
ScriptExecuteCall ==
    /\ script_pc = "idle"
    /\ IF ~script_call.project_root
       THEN /\ script_result' = ScriptResult(FALSE, "Project root not provided",
                                             "Missing project_root in workflow context")
            /\ script_pc' = "done"
            /\ UNCHANGED script_proc
       ELSE IF ~script_call.cwd_exists
       THEN /\ script_result' = ScriptResult(FALSE, "Working directory does not exist",
                                             "Directory not found")
            /\ script_pc' = "done"
            /\ UNCHANGED script_proc
       ELSE \E spawned \in BOOLEAN :
              IF spawned
              THEN /\ script_proc' = [NoScriptProcess EXCEPT !.spawned = TRUE,
                                                             !.stdout_open = TRUE]
                   /\ script_pc' = "reading"
                   /\ UNCHANGED script_result
              ELSE /\ script_result' = ScriptResult(FALSE, "Script execution failed", "OSError")
                   /\ script_pc' = "done"
                   /\ UNCHANGED script_proc
    /\ UNCHANGED <<script_call, script_clock, output_lines, wait_start>>
    /\ UNCHANGED nonScriptVars

\* lines 128-131: one iteration of "for line in process.stdout"
ScriptReadLine ==
    /\ script_pc = "reading"
    /\ script_proc.stdout_open
    /\ Len(output_lines) < MaxOutput
    /\ output_lines' = Append(output_lines, "line")
    /\ UNCHANGED <<script_call, script_pc, script_clock, script_proc, wait_start, script_result>>
    /\ UNCHANGED nonScriptVars

\* the script (and every child holding the pipe) closes its output stream
ScriptCloseStdout ==
    /\ script_proc.spawned
    /\ script_proc.stdout_open
    /\ script_pc \in {"reading", "waiting"}
    /\ script_proc' = [script_proc EXCEPT !.stdout_open = FALSE]
    /\ UNCHANGED <<script_call, script_pc, script_clock, output_lines, wait_start, script_result>>
    /\ UNCHANGED nonScriptVars

\* the shell exits; its output stream closes with it unless a child of the
\* script still holds the pipe
ScriptExit(returncode, closes) ==
    /\ script_proc.spawned
    /\ ~script_proc.exited
    /\ script_pc \in {"reading", "waiting"}
    /\ script_proc' = [script_proc EXCEPT !.exited = TRUE,
                                          !.returncode = returncode,
                                          !.exited_at = script_clock,
                                          !.stdout_open = @ /\ ~closes]
    /\ UNCHANGED <<script_call, script_pc, script_clock, output_lines, wait_start, script_result>>
    /\ UNCHANGED nonScriptVars

\* line 128 ends at end of file of process.stdout; line 133 enters
\* process.wait(timeout=timeout)
ScriptReadEof ==
    /\ script_pc = "reading"
    /\ ~script_proc.stdout_open
    /\ script_pc' = "waiting"
    /\ wait_start' = script_clock
    /\ UNCHANGED <<script_call, script_clock, script_proc, output_lines, script_result>>
    /\ UNCHANGED nonScriptVars

\* lines 145-173: wait returned, the result follows the exit code
ScriptWaitReturn ==
    /\ script_pc = "waiting"
    /\ script_proc.exited
    /\ LET exit_code == script_proc.returncode
           success == exit_code = 0 \/ ~script_call.fail_on_error
       IN script_result' = ScriptResult(success,
                                        IF success THEN "Script completed" ELSE "Script failed",
                                        IF success THEN None ELSE "Exit code")
    /\ script_pc' = "done"
    /\ UNCHANGED <<script_call, script_clock, script_proc, output_lines, wait_start>>
    /\ UNCHANGED nonScriptVars

\* lines 135-143: wait raised TimeoutExpired, the step kills the script
ScriptWaitTimeout ==
    /\ script_pc = "waiting"
    /\ ~script_proc.exited
    /\ script_clock - wait_start >= script_call.timeout
    /\ script_proc' = [script_proc EXCEPT !.exited = TRUE, !.returncode = 0 - 9,
                                          !.killed = TRUE, !.exited_at = script_clock]
    /\ script_result' = ScriptResult(FALSE, "Script timed out", "Execution timeout")
    /\ script_pc' = "done"
    /\ UNCHANGED <<script_call, script_clock, output_lines, wait_start>>
    /\ UNCHANGED nonScriptVars

\* a step of execute that is due now: end of file is seen at once, wait
\* returns when the process has exited and raises when the timeout is over
ScriptStepDue ==
    \/ script_pc = "reading" /\ ~script_proc.stdout_open
    \/ script_pc = "waiting" /\ script_proc.exited
    \/ script_pc = "waiting" /\ script_clock - wait_start >= script_call.timeout

\* one second passes while execute is blocked in the read or in the wait
ScriptTick ==
    /\ script_pc \in {"reading", "waiting"}
    /\ ~ScriptStepDue
    /\ script_clock < MaxClock
    /\ script_clock' = script_clock + 1
    /\ UNCHANGED <<script_call, script_pc, script_proc, output_lines, wait_start, script_result>>
    /\ UNCHANGED nonScriptVars

NextScript ==
    \/ ScriptExecuteCall
    \/ ScriptReadLine
    \/ ScriptCloseStdout
    \/ \E returncode \in {0, 1}, closes \in BOOLEAN : ScriptExit(returncode, closes)
    \/ ScriptReadEof
    \/ ScriptWaitReturn
    \/ ScriptWaitTimeout
    \/ ScriptTick

\* ------------------------------------------------------------------------
\* Failures of the best-effort operations of a build
\* ------------------------------------------------------------------------
InitEnvIdle ==
    /\ socket_ok = TRUE
    /\ store_ok = TRUE

\* a build is between its start and its answer
BuildInFlight == \E r \in threads : req[r].pc \notin {"idle", "done"}

\* the socket of the log subscribers breaks or recovers during a build
SocketToggle ==
    /\ BuildInFlight
    /\ socket_ok' = ~socket_ok
    /\ UNCHANGED store_ok
    /\ UNCHANGED nonEnvVars

\* the history file becomes unwritable or writable again during a build
StoreToggle ==
    /\ BuildInFlight
    /\ store_ok' = ~store_ok
    /\ UNCHANGED socket_ok
    /\ UNCHANGED nonEnvVars

\* one build request at a time, beside the failures of publish and history
NextBuildFaults ==
    \/ \E r \in Requests, app_id \in AppIds, platform \in RequestPlatforms :
          BuildCall(r, app_id, platform)
    \/ \E r \in Requests, runs \in ConfiguredRuns : BuildPreSteps(r, runs)
    \/ \E r \in Requests, ok \in BOOLEAN : BuildSetup(r, ok)
    \/ \E r \in Requests, spawned \in BOOLEAN : SpawnCommand(r, spawned)
    \/ \E r \in Requests, rc \in {0, 1, 0 - 15, 0 - 9} : WaitCommand(r, rc)
    \/ \E r \in Requests, present \in BOOLEAN : BuildFindOutput(r, present)
    \/ \E r \in Requests, moved \in BOOLEAN : BuildMoveOutput(r, moved)
    \/ \E r \in Requests, runs \in ConfiguredRuns : BuildPostSteps(r, runs)
    \/ \E r \in Requests : BuildFinish(r)
    \/ \E r \in Requests : BuildExcept(r)
    \/ \E r \in Requests : BuildReturn(r)
    \/ SocketToggle
    \/ StoreToggle

\* ------------------------------------------------------------------------
\* FlutterRunService.start called by several request threads at once: the
\* test of line 198 and the assignments of lines 207-210 are separate
\* steps of a thread, and nothing orders the threads
\* ------------------------------------------------------------------------
StartThreads == {1, 2}

IdleStarter == [pc |-> "idle", args |-> NoArgs, observed |-> FALSE, spawned |-> NoProcess]

InitStartersIdle ==
    /\ starters = [t \in StartThreads |-> IdleStarter]
    /\ start_count = 0

\* start(), lines 198-204: the tests made before the session is touched;
\* observed keeps what the thread read from is_running
ConcStartCheck(t, device_id, pid, app_id) ==
    /\ starters[t].pc = "idle"
    /\ start_count < MaxStarts
    /\ start_count' = start_count + 1
    /\ starters' = [starters EXCEPT ![t] =
            [pc |-> IF StartError(pid) # None THEN "raised" ELSE "claim",
             args |-> [device_id |-> device_id, project_id |-> pid, app_id |-> app_id],
             observed |-> is_running,
             spawned |-> NoProcess]]
    /\ UNCHANGED runVars
    /\ UNCHANGED nonConcVars

\* start(), lines 207-210: the session fields are assigned
ConcStartClaim(t) ==
    /\ starters[t].pc = "claim"
    /\ device' = starters[t].args.device_id
    /\ project_id' = starters[t].args.project_id
    /\ logs' = <<>>
    /\ is_running' = TRUE
    /\ starters' = [starters EXCEPT ![t].pc = "pre"]
    /\ UNCHANGED <<process, _current_app_id, _log_thread, run_procs, start_pc,
                   start_args, start_return, run_stop_pc, run_stop_return, start_count>>
    /\ UNCHANGED nonConcVars

\* start(), lines 211-275 and the except clause of lines 305-309: the run
\* settings and the pre-run steps
ConcStartPreSteps(t, runs) ==
    /\ starters[t].pc = "pre"
    /\ LET pre_steps == RunSettings(starters[t].args.app_id).preSteps
           res == ExecuteSteps(runs, TRUE)
       IN /\ runs \in StepRuns(pre_steps)
          /\ IF pre_steps = <<>>
             THEN /\ starters' = [starters EXCEPT ![t].pc = "spawn"]
                  /\ UNCHANGED <<logs, is_running, device, project_id>>
             ELSE IF res.raised \/ ~res.all_success
             THEN /\ logs' = logs \o <<LogEntry("Running pre-run step(s)", "info")>>
                               \o StepLogs(res.results)
                  /\ is_running' = FALSE
                  /\ device' = None
                  /\ project_id' = None
                  /\ starters' = [starters EXCEPT ![t].pc = "raised"]
             ELSE /\ logs' = logs \o <<LogEntry("Running pre-run step(s)", "info")>>
                               \o StepLogs(res.results)
                               \o <<LogEntry("Pre-run steps completed", "success")>>
                  /\ starters' = [starters EXCEPT ![t].pc = "spawn"]
                  /\ UNCHANGED <<is_running, device, project_id>>
    /\ UNCHANGED <<process, _current_app_id, _log_thread, run_procs, start_pc,
                   start_args, start_return, run_stop_pc, run_stop_return, start_count>>
    /\ UNCHANGED nonConcVars

\* start(), lines 277-304 and the except clause: Popen assigns self.process
\* and the log thread is started; spawned = FALSE stands for Popen raising
ConcStartSpawn(t, spawned) ==
    /\ starters[t].pc = "spawn"
    /\ logs' = Append(logs, LogEntry("Starting Flutter run", "info"))
    /\ IF spawned
       THEN /\ run_procs' = Append(run_procs,
                 [state |-> "running", stdin |-> <<>>, killed |-> FALSE, printed |-> 0,
                  app_id |-> starters[t].args.app_id])
            /\ process' = Len(run_procs) + 1
            /\ _current_app_id' = starters[t].args.app_id
            /\ _log_thread' = _log_thread \cup {Len(run_procs) + 1}
            /\ starters' = [starters EXCEPT ![t].pc = "done",
                                            ![t].spawned = Len(run_procs) + 1]
            /\ UNCHANGED <<is_running, device, project_id>>
       ELSE /\ is_running' = FALSE
            /\ device' = None
            /\ project_id' = None
            /\ starters' = [starters EXCEPT ![t].pc = "raised"]
            /\ UNCHANGED <<run_procs, process, _current_app_id, _log_thread>>
    /\ UNCHANGED <<start_pc, start_args, start_return, run_stop_pc, run_stop_return,
                   start_count>>
    /\ UNCHANGED nonConcVars

\* the processes the concurrent calls can spawn
ConcProcessIds == 1..MaxStarts

NextRunConc ==
    \/ \E t \in StartThreads, device_id \in DeviceIds, pid \in RunProjects,
          app_id \in RunApps :
          ConcStartCheck(t, device_id, pid, app_id)
    \/ \E t \in StartThreads : ConcStartClaim(t)
    \/ \E t \in StartThreads, runs \in ConfiguredRuns : ConcStartPreSteps(t, runs)
    \/ \E t \in StartThreads, spawned \in BOOLEAN : ConcStartSpawn(t, spawned)
    \/ \E p \in ConcProcessIds : StreamLine(p)
    \/ \E p \in ConcProcessIds : ProcessExit(p)
    \/ \E p \in ConcProcessIds : StreamEnd(p)
    \/ \E killed \in BOOLEAN : RunStop(killed)
    \/ \E runs \in ConfiguredRuns : RunStopPost(runs)
    \/ RunStopReturn

\* get_status(), lines 266-274 (the logs left out)
get_status ==
    IF current_build_id # NoBuild
    THEN [is_building |-> TRUE, build_id |-> current_build_id]
    ELSE [is_building |-> FALSE, build_id |-> NoBuild]

\* ------------------------------------------------------------------------
\* BuildHistoryService.add_record called by several threads at once (each
\* build request records its own result, build_service.py 386-392): the
\* load of the file and the save are separate steps of a call
\* ------------------------------------------------------------------------
AddThreads == {1, 2}

IdleAdder == [pc |-> "idle", loaded |-> <<>>, build_data |-> BuildDataFor(0)]

InitAddersIdle ==
    /\ adders = [t \in AddThreads |-> IdleAdder]
    /\ adds_done = 0

\* add_record, line 64: _load_history reads the file
AddLoad(t) ==
    /\ adders[t].pc = "idle"
    /\ hist_clock < MaxConcAdds
    /\ hist_clock' = hist_clock + 1
    /\ adders' = [adders EXCEPT ![t] = [pc |-> "loaded", loaded |-> history,
                                        build_data |-> BuildDataFor(hist_clock')]]
    /\ UNCHANGED <<history, hist_last, adds_done>>
    /\ UNCHANGED nonAddVars

\* add_record, lines 66-85: the record is put in front of the list that was
\* loaded, the list is cut and _save_history writes it over the file
AddSave(t) ==
    /\ adders[t].pc = "loaded"
    /\ history' = AddRecord(adders[t].loaded, adders[t].build_data, hist_clock)
    /\ hist_last' = MakeRecord(adders[t].build_data, hist_clock)
    /\ adders' = [adders EXCEPT ![t] = IdleAdder]
    /\ adds_done' = adds_done + 1
    /\ UNCHANGED hist_clock
    /\ UNCHANGED nonAddVars

NextHistoryConc ==
    \/ \E t \in AddThreads : AddLoad(t)
    \/ \E t \in AddThreads : AddSave(t)

Init == InitHistory /\ InitWf /\ InitBuild /\ InitRun /\ InitArgsIdle /\ InitCmdIdle /\ InitDevicesIdle /\ InitScriptIdle /\ InitEnvIdle /\ InitStartersIdle /\ InitHotIdle /\ InitPostIdle /\ InitAddersIdle

InitConc == InitHistory /\ InitWf /\ InitBuildConc /\ InitRun /\ InitArgsIdle /\ InitCmdIdle /\ InitDevicesIdle /\ InitScriptIdle /\ InitEnvIdle /\ InitStartersIdle /\ InitHotIdle /\ InitPostIdle /\ InitAddersIdle

SpecHistory == Init /\ [][NextHistory]_vars

SpecWf == Init /\ [][NextWf]_vars

SpecBuild == Init /\ [][NextBuild]_vars

SpecBuildConc == InitConc /\ [][NextBuildConc]_vars

SpecRun == Init /\ [][NextRun]_vars

InitParse == InitHistory /\ InitWf /\ InitBuild /\ InitRun /\ InitArgs /\ InitCmdIdle /\ InitDevicesIdle /\ InitScriptIdle /\ InitEnvIdle /\ InitStartersIdle /\ InitHotIdle /\ InitPostIdle /\ InitAddersIdle

InitCommands == InitHistory /\ InitWf /\ InitBuild /\ InitRun /\ InitArgsIdle /\ InitCmd /\ InitDevicesIdle /\ InitScriptIdle /\ InitEnvIdle /\ InitStartersIdle /\ InitHotIdle /\ InitPostIdle /\ InitAddersIdle

SpecArgs == InitParse /\ [][NextArgs]_vars

SpecCmd == InitCommands /\ [][NextCmd]_vars

InitDeviceCalls == InitHistory /\ InitWf /\ InitBuild /\ InitRun /\ InitArgsIdle /\ InitCmdIdle /\ InitDevices /\ InitScriptIdle /\ InitEnvIdle /\ InitStartersIdle /\ InitHotIdle /\ InitPostIdle /\ InitAddersIdle

SpecDevices == InitDeviceCalls /\ [][NextDevices]_vars

InitScriptCalls == InitHistory /\ InitWf /\ InitBuild /\ InitRun /\ InitArgsIdle /\ InitCmdIdle /\ InitDevicesIdle /\ InitScript /\ InitEnvIdle /\ InitStartersIdle /\ InitHotIdle /\ InitPostIdle /\ InitAddersIdle

SpecScript == InitScriptCalls /\ [][NextScript]_vars

SpecBuildFaults == Init /\ [][NextBuildFaults]_vars

SpecRunConc == Init /\ [][NextRunConc]_vars

SpecRunHot == Init /\ [][NextRunHot]_vars

SpecHistoryConc == Init /\ [][NextHistoryConc]_vars

\* ------------------------------------------------------------------------
\* Properties
\* ------------------------------------------------------------------------

\* ---- helpers for the executor properties
CountEvents(i, status) ==
    Cardinality({k \in 1..Len(step_events) : step_events[k] = StepEvent(i, status)})

CountIn(seq, i) == Cardinality({k \in 1..Len(seq) : seq[k] = i})

Increasing(seq) ==
    \A a \in 1..Len(seq) : \A b \in 1..Len(seq) : a < b => seq[a] < seq[b]

Elements(seq) == {seq[k] : k \in 1..Len(seq)}

AllSuccess(results) == \A k \in 1..Len(results) : results[k].success

\* the ways a step fails that the executor turns into a failed StepResult
FailKinds == {"unknown", "invalid", "fail", "raise"}

\* step k (0-based) is the first step of the list to fail
FirstFailAt(steps, k) ==
    /\ k \in 0..(Len(steps) - 1)
    /\ steps[k + 1] \in FailKinds
    /\ \A j \in 0..(k - 1) : steps[j + 1] = "ok"

C3_StatusIsAndOfSteps ==
    (/\ wf_entry = "execute"
     /\ wf_pc = "done"
     /\ ~stop_on_error
     /\ ~_should_stop
     /\ wf_return.message \in {"Workflow failed", "Workflow completed successfully"}) =>
        /\ Len(wf_return.step_results) = Len(wf_steps)
        /\ (wf_return.status = "success") = AllSuccess(wf_return.step_results)

NewestFirst(hist) ==
    \A i \in 1..Len(hist) : \A j \in 1..Len(hist) :
        i < j => hist[i].timestamp > hist[j].timestamp

\* C9: after any sequence of add_record calls the stored history holds at
\* most 50 records, newest first; an add_record on a full history (50
\* records) evicts exactly the oldest record and keeps the other 49, in their
\* order, behind the new record.
C9_HistoryCapped ==
    [][ /\ Len(history') <= HistoryLimit
        /\ NewestFirst(history')
        /\ (hist_clock' # hist_clock) =>
              /\ history'[1] = hist_last'
              /\ history'[1].build_id = hist_clock'
              /\ Len(history) < HistoryLimit =>
                    history' = <<hist_last'>> \o history
              /\ Len(history) = HistoryLimit =>
                    history' = <<hist_last'>> \o SubSeq(history, 1, HistoryLimit - 1)
      ]_vars

\* a 51st record has been added to a full history
C9_Witness ==
    /\ Len(history) = HistoryLimit
    /\ hist_clock > HistoryLimit
    /\ history[1].timestamp = hist_clock
    /\ history[HistoryLimit].timestamp = hist_clock - HistoryLimit + 1


\* ---- helpers for the build properties
InFlight(r) == req[r].pc \notin {"idle", "done"}

StageOrder == <<"pre_steps", "setup", "clean", "pub_get", "build",
                "find_output", "relocate", "post_steps">>

StageIndex(stage) == CHOOSE k \in 1..Len(StageOrder) : StageOrder[k] = stage

ProcsOf(build_id) == {p \in 1..Len(procs) : procs[p].build_id = build_id}

\* C4: a build() call for a missing app, or for a platform that is not in
\* the app's platforms list, raises at once: it spawns no subprocess and
\* leaves the current build id, the current process, the build logs and the
\* build history unchanged.
C4_RejectedBuildChangesNothing ==
    [][\A r \in Requests, app_id \in AppIds, platform \in RequestPlatforms :
          (/\ BuildCall(r, app_id, platform)
           /\ (~AppStore(app_id).found \/ platform \notin AppStore(app_id).platforms))
          => /\ req'[r].pc = "done"
             /\ req'[r].ret.status = "raised"
             /\ UNCHANGED <<current_build_id, current_process, _build_start_time,
                            build_logs, procs, stage_log, history>>]_vars

\* a call was rejected for its platform after an earlier build had left logs
\* and a history record
C4_Witness ==
    \E r \in Requests :
        /\ req[r].pc = "done"
        /\ req[r].error = "Platform is not supported by this app"
        /\ req[r].builds = 1
        /\ Len(build_logs) = 1 /\ build_logs[1] # <<>>
        /\ Len(history) = 1

\* C5: the stages of one build start in the order pre-steps, setup, clean,
\* dependency fetch, build command, output lookup, relocation, post-steps;
\* a stage starts only after the stage before it has ended successfully, so
\* a stage that fails is the last one of its build.
C5_StagesInOrder ==
    \A b \in 1..Len(stage_log) :
        LET log == stage_log[b]
        IN \A i \in 1..Len(log) :
              IF log[i].ev = "start"
              THEN IF i = 1
                   THEN log[i].stage \in {"pre_steps", "setup"}
                   ELSE /\ log[i - 1].ev = "ok"
                        /\ StageIndex(log[i].stage) = StageIndex(log[i - 1].stage) + 1
              ELSE /\ i > 1
                   /\ log[i - 1].ev = "start"
                   /\ log[i - 1].stage = log[i].stage

\* one build ran all eight stages, each to its successful end
C5_Witness ==
    \E b \in 1..Len(stage_log) :
        /\ Len(stage_log[b]) = 2 * Len(StageOrder)
        /\ \A k \in 1..Len(StageOrder) :
              /\ stage_log[b][2 * k - 1] = StageEvent(StageOrder[k], "start")
              /\ stage_log[b][2 * k] = StageEvent(StageOrder[k], "ok")

\* C6: while one build() call is in flight (its build id allocated, not yet
\* returned or raised) no other build() call is in the pipeline.
C6_OneBuildInFlight ==
    \A r1 \in Requests, r2 \in Requests :
        (r1 # r2 /\ InFlight(r1)) => ~InFlight(r2)

\* C10: a build whose pre-build steps did not all succeed starts no later
\* stage (no handler setup), spawns no toolchain command, and its build()
\* call raises.
C10_PreStepFailureAborts ==
    \A b \in 1..Len(stage_log) :
        (/\ Len(stage_log[b]) >= 2
         /\ stage_log[b][2] = StageEvent("pre_steps", "fail"))
        => /\ Len(stage_log[b]) = 2
           /\ ProcsOf(b) = {}
           /\ \A r \in Requests :
                 req[r].build_id = b
                 => /\ req[r].pc \in {"except", "done"}
                    /\ req[r].pc = "done" => req[r].ret.status = "raised"

\* a build() call has raised after a pre-build step returned a failure
C10_Witness ==
    \E r \in Requests :
        /\ req[r].pc = "done"
        /\ req[r].build_id # NoBuild
        /\ req[r].error = "Pre-build workflow steps failed"
        /\ req[r].ret.status = "raised"
        /\ stage_log[req[r].build_id] =
              <<StageEvent("pre_steps", "start"), StageEvent("pre_steps", "fail")>>


\* C7: start() called while is_running is true raises "Flutter is already
\* running"; it spawns no process, runs no pre-run steps and leaves device,
\* project_id, logs and the process handle unchanged.
C7_StartWhileRunningRejected ==
    [][\A device_id \in DeviceIds, pid \in RunProjects, app_id \in RunApps :
          (is_running /\ StartCall(device_id, pid, app_id))
          => /\ start_pc' = "done"
             /\ start_return' = [status |-> "raised", error |-> "Flutter is already running"]
             /\ UNCHANGED <<device, project_id, logs, process, run_procs,
                            is_running, _log_thread, _current_app_id>>]_vars

\* a start() call was rejected while a flutter run process was alive
C7_Witness ==
    /\ start_pc = "done"
    /\ start_return = [status |-> "raised", error |-> "Flutter is already running"]
    /\ is_running
    /\ process # NoProcess
    /\ run_procs[process].state = "running"

\* C8: stop() with no active session (is_running false or no process)
\* returns status "stopped" without raising; it writes to no process, runs
\* no post-run steps and leaves the session state unchanged, so that a
\* further stop() call finds the same case and gives the same result.
C8_StopWithoutSessionIsNoop ==
    [][\A killed \in BOOLEAN :
          ((~is_running \/ process = NoProcess) /\ RunStop(killed))
          => /\ run_stop_pc' = "done"
             /\ run_stop_return' = [status |-> "stopped"]
             /\ UNCHANGED <<process, device, project_id, logs, is_running,
                            run_procs, _log_thread, _current_app_id>>
             /\ (~is_running' \/ process' = NoProcess)]_vars

\* stop() has returned "stopped" at once while a start() call had set
\* is_running and the device but had not yet spawned a process
C8_Witness ==
    /\ run_stop_pc = "done"
    /\ run_stop_return = [status |-> "stopped"]
    /\ process = NoProcess
    /\ is_running
    /\ device # None
    /\ start_pc = "spawn"


\* ---- helpers for the history of builds
RecordsOf(build_id) == {k \in 1..Len(history) : history[k].build_id = build_id}

Relocated(build_id) ==
    \E i \in 1..Len(stage_log[build_id]) :
        stage_log[build_id][i] = StageEvent("relocate", "ok")

\* C11: once the artifact of a build has been relocated, a failure of a
\* post-build step does not change the outcome: build() returns status
\* "success" with the output filename and the history record of the build
\* has status "success".
C11_PostStepFailureKeepsSuccess ==
    \A r \in Requests :
        (/\ req[r].pc = "done"
         /\ req[r].build_id # NoBuild
         /\ Relocated(req[r].build_id))
        => /\ req[r].ret.status = "success"
           /\ req[r].ret.filename = OutputFilename
           /\ \A k \in RecordsOf(req[r].build_id) : history[k].status = "success"

\* C12: a build() call that has passed the precondition checks has exactly
\* one history record once it has returned or raised and none before; the
\* record has status "success" when build() returned and status "error",
\* with the error message, when it raised (a raise caused by stop_build
\* included).
C12_OneHistoryRecordPerBuild ==
    \A b \in 1..Len(build_logs) :
        LET holders == {r \in Requests : req[r].build_id = b}
            ended == \A r \in holders : req[r].pc = "done"
        IN /\ Cardinality(RecordsOf(b)) = (IF ended THEN 1 ELSE 0)
           /\ \A r \in holders : \A k \in RecordsOf(b) :
                 IF req[r].ret.status = "success"
                 THEN history[k].status = "success"
                 ELSE /\ history[k].status = "error"
                      /\ history[k].error_message = req[r].error

\* a build() call has raised because stop_build terminated its toolchain
\* process, and the build has its one history record, of status "error"
C12_Witness ==
    \E r \in Requests :
        /\ req[r].pc = "done"
        /\ req[r].build_id # NoBuild
        /\ req[r].error = "CalledProcessError"
        /\ \E p \in ProcsOf(req[r].build_id) : procs[p].rc = 0 - 15
        /\ Cardinality(RecordsOf(req[r].build_id)) = 1
        /\ \A k \in RecordsOf(req[r].build_id) : history[k].status = "error"

\* C13: a stop_build() call that found a build process returns 'stopped',
\* and when it returns both the current-process slot and the current-build
\* slot are empty.
C13_StopBuildReturnsStopped ==
    (/\ stop_build_pc = "done"
     /\ stop_build_return.status # "no_active_build")
    => /\ stop_build_return.status = "stopped"
       /\ current_process = NoProcess
       /\ current_build_id = NoBuild

\* C14: while the post-run steps of a session stopped by stop() are still
\* pending or executing, is_running is true: the slot is released only
\* after them, whatever the log-streaming thread does meanwhile.
C14_SlotHeldDuringPostRunSteps ==
    (/\ run_stop_pc = "post"
     /\ RunSettings(_current_app_id).postSteps # <<>>)
    => is_running

\* C15: when the stop flag is set as a step of execute() is about to start,
\* the workflow ends there with status 'stopped': that step and the later
\* ones are neither instantiated, validated nor executed, and every step
\* started before has completed with its result in the returned list.
C15_StopBeforeStepEndsStopped ==
    /\ [][(wf_pc = "loop" /\ _should_stop /\ wf_pc' # "loop")
          => /\ wf_pc' = "done"
             /\ wf_return'.status = "stopped"
             /\ wf_return'.step_results = step_results
             /\ Len(step_results) = index
             /\ created' = created
             /\ validated' = validated
             /\ executed' = executed]_vars
    /\ [](wf_return.status = "stopped"
          => \A i \in Elements(created) \cup Elements(validated) \cup Elements(executed) :
                i < Len(wf_return.step_results))

\* a workflow of several steps stopped after its first step had completed
C15_Witness ==
    /\ wf_pc = "done"
    /\ wf_return.status = "stopped"
    /\ Len(wf_return.step_results) >= 1
    /\ Len(wf_steps) > Len(wf_return.step_results)
    /\ executed = <<0>>

\* C16: a step of unknown type never makes the executor raise.  No instance
\* is created for it; execute and execute_steps record the failed result
\* 'Unknown step type' for it and then go on to the next step, or stop the
\* iteration when stop_on_error is set, as after any failed step.
C16_UnknownTypeIsFailedStep ==
    /\ [][(/\ wf_pc = "step"
           /\ wf_steps[index + 1] = "unknown"
           /\ wf_pc' # "step")
          => /\ step_results' =
                    Append(step_results, StepResult(index, FALSE, "Unknown step type"))
             /\ created' = created
             /\ validated' = validated
             /\ executed' = executed
             /\ failed' = (failed \/ stop_on_error)
             /\ wf_pc' = (IF stop_on_error \/ index + 1 >= Len(wf_steps)
                          THEN "after" ELSE "loop")]_vars
    /\ []((wf_pc = "done" /\ wf_entry = "execute_steps")
          => LET results == es_return.results
                 next == Len(results) + 1
             IN /\ es_return.raised => wf_steps[next] # "unknown"
                /\ \A k \in 1..Len(results) :
                      wf_steps[k] = "unknown"
                      => /\ results[k] = StepResult(k - 1, FALSE, "Unknown step type")
                         /\ (k - 1) \notin Elements(created)
                         /\ ~es_return.success
                         /\ IF stop_on_error
                            THEN Len(results) = k /\ ~es_return.raised
                            ELSE k < Len(wf_steps)
                                 => \/ Len(results) > k
                                    \/ es_return.raised /\ wf_steps[next] = "vraise")

\* execute_steps without stop_on_error went past an unknown first step and
\* executed the step after it
C16_Witness ==
    /\ wf_pc = "done"
    /\ wf_entry = "execute_steps"
    /\ ~stop_on_error
    /\ Len(wf_steps) >= 2
    /\ wf_steps[1] = "unknown"
    /\ Len(es_return.results) >= 2
    /\ es_return.results[2].success
    /\ ~es_return.raised

\* ---- helpers for the argument properties
\* a text without quotes and escape characters
PlainText(text) == \A k \in 1..Len(text) : text[k] \notin Quotes \cup {Backslash}

\* the positions where a run of non-separator characters starts, and where
\* the run starting at i ends
WordStarts(text) ==
    {i \in 1..Len(text) : text[i] \notin Whitespace /\ (i = 1 \/ text[i - 1] \in Whitespace)}

WordEnd(text, i) ==
    CHOOSE j \in i..Len(text) :
        /\ \A k \in i..j : text[k] \notin Whitespace
        /\ j = Len(text) \/ text[j + 1] \in Whitespace

\* the runs of non-separator characters of a text, from left to right
WordsOf(text) ==
    [n \in 1..Cardinality(WordStarts(text)) |->
        LET i == CHOOSE s \in WordStarts(text) :
                    Cardinality({t \in WordStarts(text) : t < s}) = n - 1
        IN SubSeq(text, i, WordEnd(text, i))]

\* C18: parse_arguments returns the tokens of its input in input order,
\* taking spaces and newlines alike as separators: a blank input gives the
\* empty list, a text without quotes gives its runs of non-separator
\* characters, and a quoted token standing between separators is one token
\* with its internal spaces kept.
C18_ParseArgumentsTokens ==
    parse_return.returned
    => LET tokens == parse_return.tokens
       IN /\ IsBlank(arguments) => tokens = <<>>
          /\ tokens = parse_arguments(Normalized(arguments))
          /\ PlainText(arguments) => tokens = WordsOf(arguments)
          /\ \A i \in 1..Len(arguments) : \A j \in (i + 1)..Len(arguments) :
                LET pre == SubSeq(arguments, 1, i - 1)
                    body == SubSeq(arguments, i + 1, j - 1)
                    post == SubSeq(arguments, j + 1, Len(arguments))
                IN (/\ arguments[i] \in Quotes
                    /\ arguments[j] = arguments[i]
                    /\ \A k \in 1..Len(body) : body[k] \notin {arguments[i], Backslash}
                    /\ PlainText(pre)
                    /\ PlainText(post)
                    /\ pre = <<>> \/ pre[Len(pre)] \in Whitespace
                    /\ post = <<>> \/ post[1] \in Whitespace)
                   => tokens = WordsOf(pre) \o <<Normalized(body)>> \o WordsOf(post)

\* a word, a newline, and a quoted token that holds a space
C18_Witness ==
    /\ parse_return.returned
    /\ arguments = <<Letter, Newline, DoubleQuote, Space, DoubleQuote>>
    /\ parse_return.tokens = <<(<<Letter>>), (<<Space>>)>>

\* ---- helpers for the command-line properties
RECURSIVE TokensOfCustomArgs(_)
\* the parsed tokens of the custom_args steps of a list, in list order
TokensOfCustomArgs(steps) ==
    IF steps = <<>> THEN <<>>
    ELSE LET n == Len(steps)
         IN TokensOfCustomArgs(SubSeq(steps, 1, n - 1))
            \o (IF steps[n].type = "custom_args"
                THEN parse_arguments(steps[n].arguments)
                ELSE <<>>)

ModeFlags == {"--release", "--debug", "--profile"}

ModeFlagOf(build_type) ==
    CASE build_type = "release" -> "--release"
      [] build_type = "debug"   -> "--debug"
      [] OTHER                  -> "--profile"

\* C17: the arguments appended to the toolchain command are the parsed
\* tokens of all pre-steps of type custom_args, concatenated in step-list
\* order; they follow the handler's build command, or the mode flag of the
\* run command, and the clean and dependency-fetch commands get none.
C17_CustomArgsAppended ==
    LET tokens == TokensOfCustomArgs(handler_call.pre_steps)
    IN /\ handler_return.fn = "_run_flutter_build"
          => /\ Len(handler_return.value) = 3
             /\ handler_return.value[1] = <<"flutter", "clean">>
             /\ handler_return.value[2] = <<"flutter", "pub", "get">>
             /\ handler_return.value[3] =
                   get_build_command(handler_call.platform, handler_call.build_type,
                                     handler_call.output_type) \o tokens
       /\ handler_return.fn = "start"
          => handler_return.value =
                <<"flutter", "run", "-d", handler_call.device_id,
                  RunModeFlag(handler_call.run_mode)>> \o tokens

\* an Android release build after two custom_args steps: three tokens follow
\* the build command
C17_Witness ==
    /\ handler_return.fn = "_run_flutter_build"
    /\ handler_call.pre_steps =
          <<[type |-> "custom_args", arguments |-> <<Letter>>],
            [type |-> "custom_args", arguments |-> <<Letter, Letter, Newline, Letter>>]>>
    /\ handler_return.value[3] =
          <<"flutter", "build", "apk", "--release",
            (<<Letter>>), (<<Letter, Letter>>), (<<Letter>>)>>

\* C19: the command of get_build_command holds exactly one mode flag, the
\* one of the build type, for every handler and each of release, debug and
\* profile.
C19_OneMatchingModeFlag ==
    handler_return.fn = "get_build_command"
    => LET command == handler_return.value
           flags == {k \in 1..Len(command) : command[k] \in ModeFlags}
       IN /\ Cardinality(flags) = 1
          /\ \A k \in flags : command[k] = ModeFlagOf(handler_call.build_type)

\* C20: for the Android handler the output type 'appbundle' gives the
\* sub-command appbundle, an artifact ending in .aab and the extension
\* '.aab', the output type 'apk' gives apk, .apk and '.apk'; the extension
\* of every other handler is '.zip'.
C20_AndroidOutputConsistent ==
    LET android == handler_call.platform = "android"
        output_type == handler_call.output_type
        suffix == IF output_type = "appbundle" THEN ".aab" ELSE ".apk"
    IN /\ (/\ handler_return.fn = "get_build_command"
           /\ android /\ output_type \in {"apk", "appbundle"})
          => handler_return.value[3] = output_type
       /\ (/\ handler_return.fn = "find_build_output"
           /\ android /\ output_type \in {"apk", "appbundle"}
           /\ handler_return.value.raised = None)
          => handler_return.value.suffix = suffix
       /\ handler_return.fn = "get_output_extension"
          => IF android
             THEN output_type \in {"apk", "appbundle"} => handler_return.value = suffix
             ELSE handler_return.value = ".zip"

\* the Android handler asked for the extension of an app bundle
C20_Witness ==
    /\ handler_return.fn = "get_output_extension"
    /\ handler_call.platform = "android"
    /\ handler_call.output_type = "appbundle"
    /\ handler_return.value = ".aab"

\* C21: every device that get_devices returns for a project id has a
\* canonical platform that is one of the platform directories of the
\* project; devices of an unmapped or unsupported platform are left out.
C21_DevicesOfProjectPlatforms ==
    (devices_return.returned /\ devices_call.project_id # None)
    => \A k \in 1..Len(devices_return.devices) :
          devices_return.devices[k].platform_type
             \in _get_project_platforms(devices_call.project_id, devices_call.dirs)

\* C22: a run_script step enforces its timeout: once more than the
\* configured timeout has passed since the script was spawned and the script
\* did not exit by itself within the timeout, execute has killed the script
\* and returned the failed 'timed out' result.
C22_TimeoutEnforced ==
    (/\ script_proc.spawned
     /\ script_clock > script_call.timeout
     /\ ~(script_proc.exited /\ ~script_proc.killed
            /\ script_proc.exited_at <= script_call.timeout))
    => /\ script_pc = "done"
       /\ script_proc.killed
       /\ ~script_result.success
       /\ script_result.message = "Script timed out"

\* the results list of the entry point that is running or has finished
EntryResults ==
    IF wf_entry = "execute" THEN step_results
    ELSE IF wf_entry = "execute_steps" THEN es_return.results
    ELSE <<>>

\* the index occurs in the sequence of calls
CalledOn(calls, i) == \E k \in 1..Len(calls) : calls[k] = i

\* C23: in execute and in execute_steps a step's execute is called only
\* after its validate was called and reported a valid configuration; a step
\* whose validate reports an invalid configuration gets a failed StepResult
\* and its execute is never called.
C23_InvalidStepNotExecuted ==
    /\ \A k \in 1..Len(executed) :
          /\ CalledOn(validated, executed[k])
          /\ validate(wf_steps[executed[k] + 1]) = "valid"
    /\ \A j \in 1..Len(validated) :
          validate(wf_steps[validated[j] + 1]) = "invalid"
          => /\ ~CalledOn(executed, validated[j])
             /\ \E k \in 1..Len(EntryResults) :
                   EntryResults[k] = StepResult(validated[j], FALSE, "Step validation failed")

\* an invalid step was validated, by either entry point, and a valid step
\* of the same list was executed
C23_Witness ==
    /\ \E j \in 1..Len(validated) : validate(wf_steps[validated[j] + 1]) = "invalid"
    /\ executed # <<>>
    /\ wf_entry = "execute"

\* the positions of the results list that belong to step i
ResultsOfStep(results, i) == {n \in 1..Len(results) : results[n].step_id = i}

\* the entry point has returned or raised, and not because of a stop request
RanToTheEnd ==
    /\ wf_pc = "done"
    /\ wf_entry = "execute" => wf_return.status # "stopped"

\* C24: an exception raised by a step's execute does not leave execute nor
\* execute_steps; the step gets exactly one StepResult, a failed one with
\* the exception text, and the loop stops after it when stop_on_error is
\* set and goes on to the next step otherwise.
C24_ExecuteExceptionBecomesResult ==
    /\ \A k \in 1..Len(executed) :
          execute_step(wf_steps[executed[k] + 1]) = "raises"
          => /\ Cardinality(ResultsOfStep(EntryResults, executed[k])) = 1
             /\ \A n \in ResultsOfStep(EntryResults, executed[k]) :
                   EntryResults[n] = StepResult(executed[k], FALSE, "Step execution error")
             /\ stop_on_error
                => /\ executed[Len(executed)] = executed[k]
                   /\ created[Len(created)] = executed[k]
                   /\ \A n \in 1..Len(EntryResults) : EntryResults[n].step_id <= executed[k]
             /\ (~stop_on_error /\ RanToTheEnd /\ executed[k] + 1 < Len(wf_steps))
                => \/ ResultsOfStep(EntryResults, executed[k] + 1) # {}
                   \/ validate(wf_steps[executed[k] + 2]) = "raises"
    /\ (wf_entry = "execute_steps" /\ es_return.raised)
       => /\ validated # <<>>
          /\ validate(wf_steps[validated[Len(validated)] + 1]) = "raises"
    /\ (wf_entry = "execute" /\ wf_pc = "done" /\ wf_return.message = "Workflow execution error")
       => \/ validated = <<>>
          \/ validate(wf_steps[validated[Len(validated)] + 1]) = "raises"

\* execute_steps has returned after a step's execute raised, with
\* stop_on_error off and a later step processed after it
C24_Witness ==
    /\ wf_entry = "execute_steps"
    /\ ~es_return.raised
    /\ ~stop_on_error
    /\ \E k \in 1..Len(executed) :
          /\ execute_step(wf_steps[executed[k] + 1]) = "raises"
          /\ ResultsOfStep(es_return.results, executed[k] + 1) # {}

RECURSIVE StatusesOf(_, _)
\* the statuses of the step events of step i, in the order of emission
StatusesOf(events, i) ==
    IF events = <<>> THEN <<>>
    ELSE IF Head(events).step_index = i
         THEN <<Head(events).status>> \o StatusesOf(Tail(events), i)
         ELSE StatusesOf(Tail(events), i)

\* C25: in execute every step's status events are a prefix of running then
\* success or error, or the single event skipped; and when a terminal
\* workflow status (success, error, stopped) is emitted no step is left in
\* status running.
C25_StepEventsWellFormed ==
    /\ \A i \in 0..(MaxSteps - 1) :
          StatusesOf(step_events, i) \in
             {<<>>, <<"running">>, <<"running", "success">>,
              <<"running", "error">>, <<"skipped">>}
    /\ (\E k \in 1..Len(wf_events) : wf_events[k] \in {"success", "error", "stopped"})
       => \A i \in 0..(MaxSteps - 1) : StatusesOf(step_events, i) # <<"running">>

\* C26: when execute has run a step list to its end without a stop request,
\* it has made the calls execute_steps makes on the same list with the same
\* stop_on_error value (create_step, validate and execute on the same steps
\* in the same order), its loop has collected the same per-step results, and
\* it returns them exactly when execute_steps returns them: an exception
\* that leaves execute_steps is the one execute reports as its error.
C26_ExecuteStepsMatchesExecute ==
    (/\ wf_entry = "execute"
     /\ wf_pc = "done"
     /\ ~_should_stop
     /\ wf_events # <<>>
     /\ wf_events[1] = "running")
    => LET r == ExecuteSteps(wf_steps, stop_on_error)
       IN /\ created = r.created
          /\ validated = r.validated
          /\ executed = r.executed
          /\ step_results = r.results
          /\ r.raised <=> wf_return.message = "Workflow execution error"
          /\ ~r.raised => wf_return.step_results = r.results

\* execute has finished a list of MaxSteps steps in which a step failed and
\* a later step was executed
C26_Witness ==
    /\ wf_entry = "execute"
    /\ wf_pc = "done"
    /\ ~_should_stop
    /\ Len(wf_steps) = MaxSteps
    /\ Len(wf_return.step_results) = MaxSteps
    /\ \E k \in 1..Len(step_results) : ~step_results[k].success
    /\ Len(executed) >= 2

\* the stages that come after toolchain command cmd in a build
StagesAfter(cmd) ==
    CASE cmd = "clean"   -> {"pub_get", "build", "find_output", "relocate", "post_steps"}
      [] cmd = "pub_get" -> {"build", "find_output", "relocate", "post_steps"}
      [] OTHER           -> {"find_output", "relocate", "post_steps"}

\* C27: once a toolchain command (clean, pub get, build) of a build has
\* exited with a non-zero code, no later toolchain command is spawned for
\* that build, its output is neither looked up nor relocated, no post-build
\* step runs, and the build raises.
C27_FailedCommandEndsBuild ==
    \A p \in 1..Len(procs) :
       (procs[p].state = "exited" /\ procs[p].rc # 0)
       => LET b == procs[p].build_id
          IN /\ \A q \in 1..Len(procs) : procs[q].build_id = b => q <= p
             /\ \A k \in 1..Len(stage_log[b]) :
                   stage_log[b][k].stage \notin StagesAfter(procs[p].cmd)
             /\ stage_log[b][Len(stage_log[b])] = StageEvent(procs[p].cmd, "fail")
             /\ \A r \in threads :
                   req[r].build_id = b
                   => /\ req[r].pc \in {"except", "done"}
                      /\ req[r].pc = "done" => req[r].ret.status = "raised"

\* the dependency fetch of a build exited with code 1 and the build raised
C27_Witness ==
    \E p \in 1..Len(procs), r \in threads :
       /\ procs[p].cmd = "pub_get"
       /\ procs[p].state = "exited"
       /\ procs[p].rc = 1
       /\ req[r].build_id = procs[p].build_id
       /\ req[r].pc = "done"
       /\ req[r].ret.status = "raised"

\* the history has a record of build b with the given status
HistoryHas(b, status) ==
    \E k \in 1..Len(history) : history[k].build_id = b /\ history[k].status = status

\* C28: when the compile command exited with 0 and the artifact is not at
\* the expected path, the build fails with the not-found error: the output
\* is not relocated, no post-build step runs, the history gets a record of
\* the build with status 'error', and the build slot is free when the
\* request is answered.
C28_MissingArtifactFailsBuild ==
    \A r \in threads :
       req[r].artifact = "absent"
       => LET b == req[r].build_id
          IN /\ StageEvent("build", "ok") \in Elements(stage_log[b])
             /\ stage_log[b][Len(stage_log[b])] = StageEvent("find_output", "fail")
             /\ \A k \in 1..Len(stage_log[b]) :
                   stage_log[b][k].stage \notin {"relocate", "post_steps"}
             /\ req[r].pc \in {"except", "done"}
             /\ req[r].error = "Build output not found"
             /\ req[r].pc = "done"
                => /\ req[r].ret = [status |-> "raised", error |-> "Build output not found"]
                   /\ HistoryHas(b, "error")
                   /\ ~HistoryHas(b, "success")
                   /\ current_build_id = NoBuild
                   /\ current_process = NoProcess

\* a build whose artifact was absent has been answered
C28_Witness ==
    \E r \in threads :
       /\ req[r].artifact = "absent"
       /\ req[r].pc = "done"
       /\ procs[req[r].process].cmd = "build"
       /\ procs[req[r].process].rc = 0

\* the errors a stage of build() raises
StageErrors ==
    {"Unsupported platform", "step validation raised", "Pre-build workflow steps failed",
     "setup failed", "spawn failed", "CalledProcessError", "Build output not found",
     "move failed"}

\* the stage events of a build that went through to its successful end
\* (failed post-build steps are only a warning)
RanAllStages(log) ==
    /\ StageEvent("relocate", "ok") \in Elements(log)
    /\ \A k \in 1..Len(log) : log[k].ev = "fail" => log[k].stage = "post_steps"

\* C29: a publish of a log entry that fails, at any log point, and a history
\* append that fails do not change what a build does: every log entry is
\* stored whether or not it was published, the stages run in their order,
\* a build raises only the error of a stage that failed and returns
\* 'success' when its stages ran through, and the build slot is released.
C29_BestEffortFailuresIgnored ==
    /\ C5_StagesInOrder
    /\ \A p \in 1..Len(procs) :
          \E k \in 1..Len(build_logs[procs[p].build_id]) :
             build_logs[procs[p].build_id][k].message = "Running " \o procs[p].cmd
    /\ \A r \in threads :
          /\ req[r].build_id # NoBuild => req[r].error \in StageErrors \cup {None}
          /\ (req[r].pc = "done" /\ req[r].build_id # NoBuild)
             => LET b == req[r].build_id
                    log == stage_log[b]
                    entries == build_logs[b]
                IN /\ current_build_id = NoBuild
                   /\ current_process = NoProcess
                   /\ entries # <<>>
                   /\ IF RanAllStages(log) /\ req[r].error = None
                      THEN /\ req[r].ret.status = "success"
                           /\ entries[Len(entries)].message = "Build completed successfully!"
                      ELSE /\ req[r].ret = [status |-> "raised", error |-> req[r].error]
                           /\ req[r].error \in StageErrors
                           /\ entries[Len(entries)].message = "Build failed"
                           /\ log # <<>> => log[Len(log)].ev = "fail"
                           /\ log = <<>> => req[r].error = "Unsupported platform"

\* a build returned 'success' although the publish of one of its log
\* entries failed and its history record could not be appended
C29_Witness ==
    \E r \in threads :
       /\ req[r].pc = "done"
       /\ req[r].build_id # NoBuild
       /\ req[r].ret.status = "success"
       /\ \E k \in 1..Len(build_logs[req[r].build_id]) :
             ~build_logs[req[r].build_id][k].emitted
       /\ ~HistoryHas(req[r].build_id, "success")

\* C30: when start() fails after it has claimed the session slot, because
\* the pre-run steps fail or because the run process cannot be spawned, no
\* process was spawned by the call, and when it returns is_running is
\* false and device and project_id are cleared, so that the same start
\* would now be accepted.
C30_FailedStartReleasesSlot ==
    /\ [][(start_pc \in {"pre", "spawn"} /\ start_pc' = "done"
              /\ start_return'.status = "raised")
          => /\ run_procs' = run_procs
             /\ process' = process
             /\ _log_thread' = _log_thread
             /\ ~is_running'
             /\ device' = None
             /\ project_id' = None]_vars
    /\ [](( /\ start_pc = "done"
            /\ start_args # NoArgs
            /\ start_return.status = "raised")
          => /\ ~is_running
             /\ device = None
             /\ project_id = None
             /\ StartError(start_args.project_id) = None
             /\ process # NoProcess => run_procs[process].state # "running")

\* the pre-run steps succeeded and then the run process could not be spawned
C30_Witness ==
    /\ start_pc = "done"
    /\ start_args # NoArgs
    /\ start_return = [status |-> "raised", error |-> "spawn failed"]
    /\ \E k \in 1..Len(logs) : logs[k].message = "Pre-run steps completed"
    /\ ~is_running


\* ------------------------------------------------------------------------
\* C31: two start() calls can both read is_running = FALSE at line 198,
\* both pass the test and both spawn a run process, so that two run
\* processes are alive at once while self.process names one of them only.
\* Every process is spawned by a call that read is_running = FALSE (a second
\* process comes from the gap between the test and line 210, never from a
\* call that saw the session running), and the service's one handle names
\* the process spawned last.
C31_SpawnedByCallsThatSawIdle ==
    /\ \A t \in StartThreads :
          starters[t].spawned # NoProcess => ~starters[t].observed
    /\ process = Len(run_procs)

\* both calls passed the test, both processes are alive, one is tracked
C31_TwoProcessesOneTracked ==
    \E t \in StartThreads, u \in StartThreads :
        /\ t # u
        /\ ~starters[t].observed /\ ~starters[u].observed
        /\ starters[t].spawned # NoProcess /\ starters[u].spawned # NoProcess
        /\ run_procs[starters[t].spawned].state = "running"
        /\ run_procs[starters[u].spawned].state = "running"
        /\ process = starters[u].spawned
        /\ process # starters[t].spawned


\* ------------------------------------------------------------------------
\* C32: a hot_reload or hot_restart call leaves is_running, device,
\* project_id and the process handle as they were.  Without an active
\* session (is_running false or no process) it raises "Flutter is not
\* running" and writes nothing; on a session whose process is alive it
\* writes exactly one key to that process's stdin, 'r' for a reload and 'R'
\* for a restart, and nothing to any other process; when the process has
\* ended and the log thread has not yet noticed, the write fails, the call
\* raises and nothing is written.
C32_HotCallEffect ==
    [][hot_count' # hot_count =>
         /\ is_running' = is_running
         /\ device' = device
         /\ project_id' = project_id
         /\ process' = process
         /\ IF ~is_running \/ process = NoProcess
            THEN /\ hot_return' = [status |-> "raised", error |-> "Flutter is not running"]
                 /\ run_procs' = run_procs
            ELSE IF run_procs[process].state = "running"
            THEN /\ run_procs' = [run_procs EXCEPT ![process].stdin =
                                    Append(@, IF hot_call' = "reload" THEN "r" ELSE "R")]
                 /\ hot_return'.status = (IF hot_call' = "reload" THEN "reloading"
                                          ELSE "restarting")
            ELSE /\ hot_return'.status = "raised"
                 /\ run_procs' = run_procs]_vars

\* a hot restart answered on a running session
C32_Witness ==
    /\ hot_call = "restart"
    /\ hot_return.status = "restarting"
    /\ is_running
    /\ process # NoProcess
    /\ run_procs[process].state = "running"
    /\ run_procs[process].stdin = <<"R">>


\* ------------------------------------------------------------------------
\* C33: when execute returns the result 'stopped', every step that had not
\* started (the indices from len(step_results) on) has the single step
\* event 'skipped'.
C33_StoppedStepsSkipped ==
    (/\ wf_entry = "execute"
     /\ wf_pc = "done"
     /\ wf_return.status = "stopped")
    => \A i \in SkippedRange(step_results, wf_steps) :
          StatusesOf(step_events, i) = <<"skipped">>

\* the number of terminal workflow statuses among the events
RECURSIVE TerminalCount(_)
TerminalCount(events) ==
    IF events = <<>> THEN 0
    ELSE (IF Head(events) \in {"success", "error", "stopped"} THEN 1 ELSE 0)
         + TerminalCount(Tail(events))

\* C34: an execute call that emitted the workflow status 'running' has
\* emitted exactly one terminal workflow status (success, error or stopped)
\* when it returns, and emitted it last; the empty step list included.
C34_OneTerminalStatus ==
    (/\ wf_entry = "execute"
     /\ wf_pc = "done"
     /\ wf_events # <<>>
     /\ Head(wf_events) = "running")
    => /\ TerminalCount(wf_events) = 1
       /\ wf_events[Len(wf_events)] \in {"success", "error", "stopped"}


\* ------------------------------------------------------------------------
\* C35: in every reachable state of the run service a run process that was
\* spawned and has not exited implies is_running.
C35_LiveProcessImpliesRunning ==
    \A p \in 1..Len(run_procs) :
        run_procs[p].state = "running" => is_running


\* ------------------------------------------------------------------------
\* C36: every context stop() hands to the post-run steps holds the project
\* id, the project root and the device id of the session being stopped,
\* none of them None.
C36_PostContextComplete ==
    \A k \in 1..Len(post_calls) :
        /\ post_calls[k].project_id # None
        /\ post_calls[k].project_root # None
        /\ post_calls[k].device_id # None

\* the number of times the post-run steps were executed for session p
RECURSIVE PostRunsOf(_, _)
PostRunsOf(calls, p) ==
    IF calls = <<>> THEN 0
    ELSE (IF Head(calls).session = p THEN 1 ELSE 0) + PostRunsOf(Tail(calls), p)

\* C37: the post-run steps of a session that has them configured are
\* executed at most once, and exactly once by the time a stop() call
\* returns that finds the session's process ended, whether stop() ended
\* the process or the process had exited by itself before the call.
C37_PostStepsExactlyOnce ==
    /\ [](\A p \in 1..Len(run_procs) : PostRunsOf(post_calls, p) <= 1)
    /\ [][(/\ run_stop_pc # "done"
           /\ run_stop_pc' = "done"
           /\ process # NoProcess
           /\ run_procs[process].state = "exited"
           /\ RunSettings(run_procs[process].app_id).postSteps # <<>>)
          => PostRunsOf(post_calls', process) = 1]_vars


\* ------------------------------------------------------------------------
\* C38: once stop_build has returned 'stopped', the build spawns no further
\* toolchain process and does not complete with status 'success'.
C38_StoppedBuildGoesNoFurther ==
    [][(/\ stop_build_pc = "done"
        /\ stop_build_return.status = "stopped")
       => /\ Len(procs') = Len(procs)
          /\ \A r \in Requests :
                req'[r].ret.status = "success" => req[r].ret.status = "success"]_vars


\* ------------------------------------------------------------------------
\* C39: when a build() call that allocated a build id has returned or
\* raised, on whichever path (success, a failed pre-build step, a failed
\* handler setup, a failed toolchain command, a missing artifact, a failed
\* relocation), the build slot is released: current_build_id and
\* current_process are empty and get_status reports is_building false.
C39_SlotReleasedOnEveryExit ==
    \A r \in threads :
       (req[r].pc = "done" /\ req[r].build_id # NoBuild)
       => /\ current_build_id = NoBuild
          /\ current_process = NoProcess
          /\ ~get_status.is_building
          /\ req[r].ret.status \in {"success", "raised"}

\* a build whose artifact could not be relocated has raised, after its
\* three toolchain commands had run
C39_Witness ==
    \E r \in threads :
       /\ req[r].pc = "done"
       /\ req[r].build_id # NoBuild
       /\ req[r].ret.status = "raised"
       /\ req[r].error = "move failed"
       /\ Cardinality(ProcsOf(req[r].build_id)) = 3
       /\ current_process = NoProcess


\* ------------------------------------------------------------------------
\* C40: when every add_record call made so far has returned, the stored
\* history holds min(N, 50) records for the N calls, each of a different
\* call.
C40_NoRecordLost ==
    (\A t \in AddThreads : adders[t].pc = "idle")
    => /\ Len(history) = Min(adds_done, HistoryLimit)
       /\ \A i \in 1..Len(history), j \in 1..Len(history) :
             i # j => history[i].build_id # history[j].build_id

=============================================================================
